---------------------------- MODULE Spec2Model ----------------------------
(***************************************************************************)
(* Model of the sentiment-triggered outreach pipeline of                   *)
(* analyze_and_support.py (search -> classify -> filter -> draft ->        *)
(* persist) and of the HTTP wrapper functions it is built from.            *)
(*                                                                         *)
(* Text is modelled as a sequence of symbols.  Each symbol stands for a    *)
(* fixed piece of text:                                                    *)
(*   "F"   the fence marker ```                                            *)
(*   "j"   the word json                                                   *)
(*   "w"   white space (a blank)                                           *)
(*   "x"   some other text (no keyword, not JSON)                          *)
(*   "n"   the word negative           "N"  the word NEGATIVE              *)
(*   "t"   the word true               "T"  the word True                  *)
(*   "q"   a double quote              "@"  the character @                *)
(*   "m"   the text of a drafted message                                   *)
(*   "Ott", "Otf", "Oft", "Oe"  the text of a complete JSON object, see    *)
(*         ObjectOf                                                        *)
(*   "{"   the text {"is_negative": false, "sentiment": "neutral",         *)
(*         "severity": "low", "concerns": [], "needs_support": false,      *)
(*         "reasoning": "      (an object up to the opening quote of its   *)
(*         last string)                                                    *)
(*   "}"   the text "}         (the closing quote and brace)               *)
(* Python None is "None" for scalar fields and <<>> for composed strings.  *)
(***************************************************************************)
EXTENDS Integers, Sequences, FiniteSets, TLC

None == "None"

(***************************************************************************)
(* Bounds of the model.                                                    *)
(***************************************************************************)
MaxContentLen == 5
MaxQueryLen == 3
MaxPosts == 2
ClampMargin == 3
MaxIterations == 3
MaxMemories == 2
MaxRequests == 3
MaxReplyLen == 2

(***************************************************************************)
(* Program constants.                                                      *)
(***************************************************************************)
MinResults == 10
MaxResults == 100
ReasoningLen == 200
SleepAnalyze == 1
SleepProcess == 2
MemoryThreshold == 20
SearchLimit == 5
SubstantialLength == 20

(***************************************************************************)
(* str methods used by the code, on sequences of symbols.                  *)
(***************************************************************************)
IsSpace(c) == c = "w"

RECURSIVE LStrip(_)
LStrip(s) == IF s # <<>> /\ IsSpace(Head(s)) THEN LStrip(Tail(s)) ELSE s

RECURSIVE RStrip(_)
RStrip(s) ==
    IF s # <<>> /\ IsSpace(s[Len(s)]) THEN RStrip(SubSeq(s, 1, Len(s) - 1)) ELSE s

\* str.strip()
Strip(s) == RStrip(LStrip(s))

\* sub in s
Contains(s, sub) ==
    \E i \in 1..(Len(s) - Len(sub) + 1) : SubSeq(s, i, i + Len(sub) - 1) = sub

\* s.find(sub), 0 when absent (positions count from 1)
Find(s, sub) ==
    IF Contains(s, sub)
    THEN CHOOSE i \in 1..(Len(s) - Len(sub) + 1) :
            /\ SubSeq(s, i, i + Len(sub) - 1) = sub
            /\ \A k \in 1..(i - 1) : SubSeq(s, k, k + Len(sub) - 1) # sub
    ELSE 0

\* s.split(sep): the pieces between the non-overlapping occurrences of sep,
\* found from the left
RECURSIVE Split(_, _)
Split(s, sep) ==
    IF ~Contains(s, sep) THEN <<s>>
    ELSE LET i == Find(s, sep)
         IN  <<SubSeq(s, 1, i - 1)>> \o Split(SubSeq(s, i + Len(sep), Len(s)), sep)

\* c.lower() for one symbol: only "N" and "T" hold upper-case letters
LowerSym(c) == IF c = "N" THEN "n" ELSE IF c = "T" THEN "t" ELSE c

\* s.lower()
Lower(s) == [i \in 1..Len(s) |-> LowerSym(s[i])]

\* s[:k]
Prefix(s, k) == SubSeq(s, 1, IF Len(s) < k THEN Len(s) ELSE k)

(***************************************************************************)
(* JSON texts.                                                             *)
(***************************************************************************)
ObjectSyms == {"Ott", "Otf", "Oft", "Oe"}

\* The object a JSON text denotes.  "Oe" is {} ; the others carry every key
\* the prompt asks for, with is_negative / needs_support as the name says.
ObjectOf(o) ==
    IF o = "Oe" THEN [k \in {} |-> TRUE]
    ELSE [is_negative   |-> o \in {"Ott", "Otf"},
          sentiment     |-> IF o \in {"Ott", "Otf"} THEN "negative" ELSE "neutral",
          severity      |-> "high",
          concerns      |-> <<"c">>,
          needs_support |-> o \in {"Ott", "Oft"},
          reasoning     |-> <<"r">>]

\* Whether the text of a symbol holds the keyword ("negative" or "true").
\* An object text with the key is_negative holds the letters negative; it
\* holds true when one of its flags is true ("{" has both flags false).
SymHas(c, kw) ==
    CASE kw = "negative" -> c \in {"n", "Ott", "Otf", "Oft", "{"}
      [] kw = "true"     -> c \in {"t", "Ott", "Otf", "Oft"}
      [] OTHER           -> FALSE

\* kw in s, for a keyword
HasWord(s, kw) == \E i \in 1..Len(s) : SymHas(s[i], kw)

\* The symbols that may stand inside a JSON string
StringSyms == {"F", "j", "w", "x", "n", "N", "t", "T", "@", "m"}

\* s is "{", the characters of a string, "}": an object whose reasoning is
\* that string
IsOpenObject(s) ==
    /\ Len(s) >= 2 /\ s[1] = "{" /\ s[Len(s)] = "}"
    /\ \A i \in 2..(Len(s) - 1) : s[i] \in StringSyms

\* Whether json.loads(s) succeeds: surrounding white space is skipped and the
\* rest must be one JSON value.  The only JSON values among the texts of the
\* model are the objects.
JsonValid(s) ==
    \/ Len(Strip(s)) = 1 /\ Strip(s)[1] \in ObjectSyms
    \/ IsOpenObject(Strip(s))

\* json.loads(s), where it succeeds
JsonLoads(s) ==
    LET b == Strip(s)
    IN  IF Len(b) = 1 THEN ObjectOf(b[1])
        ELSE [is_negative   |-> FALSE,
              sentiment     |-> "neutral",
              severity      |-> "low",
              concerns      |-> <<>>,
              needs_support |-> FALSE,
              reasoning     |-> SubSeq(b, 2, Len(b) - 1)]

\* d.get(k) for a flag of a verdict, taken as a truth value: a missing key
\* gives None, which is false
Truthy(d, k) == k \in DOMAIN d /\ d[k] = TRUE

\* d.get(k, default)
Get(d, k, default) == IF k \in DOMAIN d THEN d[k] ELSE default

(***************************************************************************)
(* HTTP responses.  status is "ok" (2xx), "http_error" (raise_for_status   *)
(* raises HTTPError) or "conn_error" (the request itself raises a          *)
(* RequestException: connection error or timeout).                         *)
(***************************************************************************)
FailStatus == {"http_error", "conn_error"}
Failed(resp) == resp.status \in FailStatus

\* What a function gives back to its caller: a value, or an exception
Return(v) == [raised |-> FALSE, value |-> v]
Raise(e) == [raised |-> TRUE, value |-> e]

(***************************************************************************)
(* GrokClient.analyze_sentiment                                            *)
(***************************************************************************)
FenceJson == <<"F", "j">>
Fence == <<"F">>

\* lines 91-94: the text handed to json.loads (content is reassigned)
ExtractContent(content) ==
    IF Contains(content, FenceJson)
    THEN Strip(Split(Split(content, FenceJson)[2], Fence)[1])
    ELSE IF Contains(content, Fence)
         THEN Strip(Split(Split(content, Fence)[2], Fence)[1])
         ELSE content

\* lines 100-107: the fallback verdict, computed from the text c
HeuristicVerdict(c) ==
    [is_negative   |-> HasWord(Lower(c), "negative") \/ HasWord(Lower(c), "true"),
     sentiment     |-> IF HasWord(Lower(c), "negative") THEN "negative" ELSE "neutral",
     severity      |-> "medium",
     concerns      |-> <<>>,
     needs_support |-> TRUE,
     reasoning     |-> Prefix(c, ReasoningLen)]

\* faulty variant: the verdict given on a request error flags the post
ErrorVerdict_Flagged ==
    [is_negative   |-> TRUE,
     sentiment     |-> "unknown",
     severity      |-> "low",
     concerns      |-> <<>>,
     needs_support |-> TRUE,
     reasoning     |-> <<"API error">>]

\* lines 111-118
ErrorVerdict ==
    [is_negative   |-> FALSE,
     sentiment     |-> "unknown",
     severity      |-> "low",
     concerns      |-> <<>>,
     needs_support |-> FALSE,
     reasoning     |-> <<"API error">>]

\* Which way analyze_sentiment ends for a response
SentimentPath(resp) ==
    IF Failed(resp) THEN "api_error"
    ELSE IF JsonValid(ExtractContent(resp.content)) THEN "parsed" ELSE "fallback"

\* faulty variant: the request error is not caught
analyze_sentiment_Propagates(resp) ==
    IF Failed(resp) THEN Raise("RequestException")
    ELSE LET content == ExtractContent(resp.content)
         IN  IF JsonValid(content) THEN Return(JsonLoads(content))
             ELSE Return(HeuristicVerdict(content))

analyze_sentiment(resp) ==
    IF Failed(resp) THEN Return(ErrorVerdict)
    ELSE LET content == ExtractContent(resp.content)
         IN  IF JsonValid(content) THEN Return(JsonLoads(content))
             ELSE Return(HeuristicVerdict(content))

(***************************************************************************)
(* GrokClient.generate_support_message                                     *)
(***************************************************************************)
GenericMessage == <<"generic support message">>
FailureMessage(username) == <<"Hey @", username, "generic support message">>

\* message.replace('"', '')
RECURSIVE DropQuotes(_)
DropQuotes(s) ==
    IF s = <<>> THEN <<>>
    ELSE IF Head(s) = "q" THEN DropQuotes(Tail(s))
         ELSE <<Head(s)>> \o DropQuotes(Tail(s))

\* lines 173-178
CleanMessage(content) ==
    LET m == Strip(DropQuotes(Strip(content)))
    IN  IF m # <<>> /\ Head(m) = "@" THEN Tail(m) ELSE m

generate_support_message(resp, username) ==
    IF Failed(resp) THEN Return(FailureMessage(username))
    ELSE LET message == CleanMessage(resp.content)
         IN  Return(IF message # <<>> THEN message ELSE GenericMessage)

(***************************************************************************)
(* TwitterClient.search_posts                                              *)
(***************************************************************************)
DefaultQuery == <<"lang:en -is:retweet">>

Min(a, b) == IF a < b THEN a ELSE b
Max(a, b) == IF a > b THEN a ELSE b

\* faulty variant: only the empty string counts as "no query"
EffectiveQuery_NoStrip(query) == IF query = <<>> THEN DefaultQuery ELSE query

\* lines 214-216
EffectiveQuery(query) ==
    IF query = <<>> \/ Strip(query) = <<>> THEN DefaultQuery ELSE query

\* faulty variant: the lower limit is forgotten
ClampResults_NoFloor(max_results) == Min(max_results, MaxResults)

\* line 219
ClampResults(max_results) == Max(MinResults, Min(max_results, MaxResults))

\* lines 223-229: the parameters of the request (the fixed field lists are
\* left out)
SearchParams(query, max_results) ==
    [query |-> EffectiveQuery(query), max_results |-> ClampResults(max_results)]

\* lines 257-269: one tweet of the response as a post record; users is the
\* id -> user mapping built from includes.users
PostOf(tweet, users) ==
    [id        |-> tweet.id,
     text      |-> tweet.text,
     author_id |-> tweet.author_id,
     username  |-> IF tweet.author_id \in DOMAIN users
                   THEN users[tweet.author_id].username ELSE "unknown",
     name      |-> IF tweet.author_id \in DOMAIN users
                   THEN users[tweet.author_id].name ELSE "Unknown"]

\* faulty variant: only HTTPError is handled, other request errors propagate
search_posts_Propagates(query, max_results, resp) ==
    IF resp.status = "conn_error" THEN Raise("RequestException")
    ELSE IF Failed(resp) \/ resp.body.errors THEN Return(<<>>)
         ELSE Return([i \in 1..Len(resp.body.data) |->
                         PostOf(resp.body.data[i], resp.body.users)])

\* lines 231-305.  A 2xx body is [errors, data, users]: errors says whether
\* the body has an "errors" key, data is the tweet list (empty when the key
\* is missing), users the included users.
search_posts(query, max_results, resp) ==
    IF Failed(resp) THEN Return(<<>>)
    ELSE IF resp.body.errors THEN Return(<<>>)
         ELSE Return([i \in 1..Len(resp.body.data) |->
                         PostOf(resp.body.data[i], resp.body.users)])

(***************************************************************************)
(* TwitterClient.get_user_info / find_contact_info / send_direct_message   *)
(***************************************************************************)
NoneDict == [isNone |-> TRUE]
EmptyDict == [k \in {} |-> TRUE]

\* not d, for d a dict or None
Falsy(d) == d = NoneDict \/ DOMAIN d = {}

\* lines 323-329; a 2xx body is the JSON document, with or without "data"
get_user_info(resp) ==
    IF Failed(resp) THEN Return(NoneDict)
    ELSE Return(Get(resp.body, "data", EmptyDict))

\* line 369
ProfileUrl(user_info) ==
    IF Get(user_info, "username", None) # None
    THEN <<"https://twitter.com/", user_info.username>> ELSE <<>>

\* lines 358-372
find_contact_info(resp) ==
    LET user_info == get_user_info(resp).value
    IN  IF Falsy(user_info) THEN EmptyDict
        ELSE [username    |-> Get(user_info, "username", None),
              name        |-> Get(user_info, "name", None),
              description |-> Get(user_info, "description", ""),
              location    |-> Get(user_info, "location", None),
              url         |-> Get(user_info, "url", None),
              profile_url |-> ProfileUrl(user_info)]

\* lines 342-346
send_direct_message(user_id, message) == Return(FALSE)

(***************************************************************************)
(* fetch_x_trends.fetch_trends_by_woeid                                    *)
(***************************************************************************)
\* lines 53-71: both handlers print and re-raise
fetch_trends_by_woeid(resp) ==
    IF resp.status = "http_error" THEN Raise("HTTPError")
    ELSE IF resp.status = "conn_error" THEN Raise("RequestException")
         ELSE Return(resp.body)

(***************************************************************************)
(* response_tracker.ResponseTracker.initiate_call_for_user                 *)
(***************************************************************************)
EmptyTracking ==
    [offers_sent |-> EmptyDict, user_responses |-> EmptyDict,
     calls_initiated |-> EmptyDict]

\* lines 42-48: the file after _save_tracking_data wrote the tracking data
NoTrackingFile == [writes |-> 0, content |-> NoneDict]
save_tracking_data(file, tracking) ==
    [writes |-> file.writes + 1, content |-> tracking]

\* lines 28-40: the file a tracker loaded its tracking data from
LoadedFrom(tracking) ==
    IF tracking = EmptyTracking THEN NoTrackingFile
    ELSE [writes |-> 0, content |-> tracking]

\* faulty variant: the call is made whatever the phone number is
initiate_call_for_user_NoPhoneCheck(tracking, user_id, username, phone_number, resp, time) ==
    IF resp.status = "ok"
    THEN LET result == resp.body
             call_key == <<user_id, time>>
             entry == [user_id         |-> user_id,
                       username        |-> username,
                       conversation_id |-> Get(result, "conversation_id", None),
                       phone_number    |-> phone_number,
                       timestamp       |-> time,
                       status          |-> "initiated"]
         IN  [raised |-> FALSE, value |-> result,
              tracking |-> [tracking EXCEPT !.calls_initiated =
                               (call_key :> entry) @@ @]]
    ELSE [raised |-> FALSE, value |-> NoneDict, tracking |-> tracking]

\* lines 142-186.  tracking is self.tracking_data, time the clock in whole
\* seconds.  The backend answers 200 ("ok"), another status ("http_error";
\* nothing raises, the else branch is taken) or the request raises
\* ("conn_error").  Gives the value returned and the tracking data after.
initiate_call_for_user(tracking, user_id, username, phone_number, resp, time) ==
    IF phone_number = None \/ phone_number = ""
    THEN [raised |-> FALSE, value |-> NoneDict, tracking |-> tracking]
    ELSE IF resp.status = "ok"
         THEN LET result == resp.body
                  call_key == <<user_id, time>>
                  entry == [user_id         |-> user_id,
                            username        |-> username,
                            conversation_id |-> Get(result, "conversation_id", None),
                            phone_number    |-> phone_number,
                            timestamp       |-> time,
                            status          |-> "initiated"]
              IN  [raised |-> FALSE, value |-> result,
                   tracking |-> [tracking EXCEPT !.calls_initiated =
                                    (call_key :> entry) @@ @]]
         ELSE [raised |-> FALSE, value |-> NoneDict, tracking |-> tracking]

(***************************************************************************)
(* response_tracker: offers, replies and the monitoring loop.  The text of *)
(* a reply is a sequence of words: "yes" stands for a positive indicator,  *)
(* "no" for a negative one, "x" for any other word.                        *)
(***************************************************************************)
\* faulty variant: an offer recorded again keeps what its entry held
record_offer_sent_Merges(tracking, user_id, username, tweet_id, reply_id, time) ==
    LET offer_key == <<user_id, tweet_id>>
        entry == [user_id   |-> user_id,
                  username  |-> username,
                  tweet_id  |-> tweet_id,
                  reply_id  |-> reply_id,
                  timestamp |-> time,
                  status    |-> "pending"]
        old == IF offer_key \in DOMAIN tracking.offers_sent
               THEN tracking.offers_sent[offer_key] ELSE EmptyDict
    IN  [tracking EXCEPT !.offers_sent = (offer_key :> (entry @@ old)) @@ @]

\* lines 50-61: the tracking data after the call
record_offer_sent(tracking, user_id, username, tweet_id, reply_id, time) ==
    LET offer_key == <<user_id, tweet_id>>
        entry == [user_id   |-> user_id,
                  username  |-> username,
                  tweet_id  |-> tweet_id,
                  reply_id  |-> reply_id,
                  timestamp |-> time,
                  status    |-> "pending"]
    IN  [tracking EXCEPT !.offers_sent = (offer_key :> entry) @@ @]

\* faulty variant: the poll reports a reply of user a1 to the offer on tweet 1
check_user_responses_OneReply ==
    <<[user_id |-> "a1", username |-> "u1", text |-> <<"yes">>,
       tweet_id |-> "1", phone_number |-> "555"]>>

\* lines 50-61: the tracking file after the call
record_offer_sent_file(file, tracking, user_id, username, tweet_id, reply_id, time) ==
    save_tracking_data(file, record_offer_sent(tracking, user_id, username,
                                               tweet_id, reply_id, time))

\* lines 63-83: positive_responses is never added to
check_user_responses == <<>>

\* lines 96-97: one indicator stands for each list
positive_indicators == {"yes"}
negative_indicators == {"no"}

\* line 99: response_text.lower(), word by word
ReplyLower(response_text) ==
    [i \in 1..Len(response_text) |->
        CASE response_text[i] = "YES" -> "yes"
          [] response_text[i] = "NO"  -> "no"
          [] OTHER                    -> response_text[i]]

\* 'indicator in w' for a lower-case word: the test is on substrings, so
\* the word "know" holds the indicator "no"
IndicatorIn(indicator, w) ==
    \/ indicator = w
    \/ indicator = "no" /\ w = "know"

\* lines 102-103: any(indicator in response_lower for indicator in ...)
AnyIn(indicators, response_lower) ==
    \E indicator \in indicators :
        \E i \in 1..Len(response_lower) : IndicatorIn(indicator, response_lower[i])

\* faulty variant: a verdict that support is needed is enough
analyze_response_sentiment_NeedsSupport(response_text, analysis) ==
    LET response_lower == ReplyLower(response_text)
        has_positive == AnyIn(positive_indicators, response_lower)
        has_negative == AnyIn(negative_indicators, response_lower)
    IN  IF /\ ~analysis.raised
           /\ \/ Get(analysis.value, "sentiment", None) = "positive"
              \/ Truthy(analysis.value, "needs_support")
        THEN TRUE
        ELSE has_positive /\ ~has_negative

\* lines 96-121.  analysis is what grok_client.analyze_sentiment gave
\* back, or the exception it raised
analyze_response_sentiment(response_text, analysis) ==
    LET response_lower == ReplyLower(response_text)
        has_positive == AnyIn(positive_indicators, response_lower)
        has_negative == AnyIn(negative_indicators, response_lower)
    IN  IF /\ ~analysis.raised
           /\ \/ Get(analysis.value, "sentiment", None) = "positive"
              \/ Truthy(analysis.value, "needs_support") /\ ~has_negative
        THEN TRUE
        ELSE has_positive /\ ~has_negative

\* faulty variant: a reply to an offer never recorded creates an entry
mark_offer_responded_Creates(tracking, user_id, tweet_id, response, wants_to_talk, time) ==
    LET offer_key == <<user_id, tweet_id>>
        old == IF offer_key \in DOMAIN tracking.offers_sent
               THEN tracking.offers_sent[offer_key] ELSE EmptyDict
        new == [status             |-> "responded",
                response           |-> response,
                wants_to_talk      |-> wants_to_talk,
                response_timestamp |-> time]
    IN  [tracking EXCEPT !.offers_sent = (offer_key :> (new @@ old)) @@ @]

\* lines 199-207: the tracking data after the call
mark_offer_responded(tracking, user_id, tweet_id, response, wants_to_talk, time) ==
    LET offer_key == <<user_id, tweet_id>>
    IN  IF offer_key \in DOMAIN tracking.offers_sent
        THEN LET o == tracking.offers_sent[offer_key]
             IN  [tracking EXCEPT !.offers_sent[offer_key] =
                     [user_id            |-> o.user_id,
                      username           |-> o.username,
                      tweet_id           |-> o.tweet_id,
                      reply_id           |-> o.reply_id,
                      timestamp          |-> o.timestamp,
                      status             |-> "responded",
                      response           |-> response,
                      wants_to_talk      |-> wants_to_talk,
                      response_timestamp |-> time]]
        ELSE tracking

\* lines 199-207: the tracking file after the call
mark_offer_responded_file(file, tracking, user_id, tweet_id, response, wants_to_talk, time) ==
    IF <<user_id, tweet_id>> \in DOMAIN tracking.offers_sent
    THEN save_tracking_data(file, mark_offer_responded(tracking, user_id, tweet_id,
                                                       response, wants_to_talk, time))
    ELSE file

\* lines 142-186: the tracking file after initiate_call_for_user
initiate_call_for_user_file(file, tracking, user_id, username, phone_number, resp, time) ==
    IF phone_number = None \/ phone_number = "" THEN file
    ELSE IF resp.status = "ok"
         THEN save_tracking_data(file,
                  initiate_call_for_user(tracking, user_id, username,
                                         phone_number, resp, time).tracking)
         ELSE file

\* lines 142-158: the requests initiate_call_for_user sends to the backend
initiate_call_for_user_requests(user_id, username, phone_number) ==
    IF phone_number = None \/ phone_number = "" THEN <<>>
    ELSE <<[url  |-> "/api/calls/initiate",
            json |-> [user_id |-> user_id, username |-> username,
                      phone_number |-> phone_number]]>>

\* The calls the body of the for loop makes for its k-th response, in
\* order
AnalysisCall(k, response, wants_to_talk) ==
    [op |-> "analyze_response_sentiment", k |-> k, text |-> response.text,
     returned |-> wants_to_talk]
MarkCall(k, response, wants_to_talk) ==
    [op |-> "mark_offer_responded", k |-> k, user_id |-> response.user_id,
     tweet_id |-> response.tweet_id, wants_to_talk |-> wants_to_talk]
InitiationCall(k, response) ==
    [op |-> "initiate_call_for_user", k |-> k, user_id |-> response.user_id,
     tweet_id |-> response.tweet_id, wants_to_talk |-> TRUE]

\* faulty variant: the call is initiated before the offer is marked
HandleResponse_CallsFirst(k, response, tracking, file, grok, backend, time) ==
    LET wants_to_talk ==
            analyze_response_sentiment(response.text, analyze_sentiment(grok))
        phone_number == Get(response, "phone_number", None)
        call == initiate_call_for_user(tracking, response.user_id,
                                       response.username, phone_number, backend,
                                       time)
        call_file ==
            initiate_call_for_user_file(file, tracking, response.user_id,
                                        response.username, phone_number, backend,
                                        time)
        after == IF wants_to_talk THEN call.tracking ELSE tracking
        after_file == IF wants_to_talk THEN call_file ELSE file
    IN  [tracking |-> mark_offer_responded(after, response.user_id,
                                           response.tweet_id, response.text,
                                           wants_to_talk, time),
         file     |-> mark_offer_responded_file(after_file, after,
                                                response.user_id,
                                                response.tweet_id, response.text,
                                                wants_to_talk, time),
         calls    |-> IF wants_to_talk
                      THEN <<AnalysisCall(k, response, wants_to_talk),
                             InitiationCall(k, response),
                             MarkCall(k, response, wants_to_talk)>>
                      ELSE <<AnalysisCall(k, response, wants_to_talk),
                             MarkCall(k, response, wants_to_talk)>>]

\* lines 234-274: the body of the for loop for its k-th response.  grok is
\* the response the LLM call for the reply meets, backend the one the
\* call-initiate request meets.  Gives the tracking data and its file after,
\* and the calls made, in order.
HandleResponse(k, response, tracking, file, grok, backend, time) ==
    LET wants_to_talk ==
            analyze_response_sentiment(response.text, analyze_sentiment(grok))
        phone_number == Get(response, "phone_number", None)
        marked == mark_offer_responded(tracking, response.user_id,
                                       response.tweet_id, response.text,
                                       wants_to_talk, time)
        marked_file ==
            mark_offer_responded_file(file, tracking, response.user_id,
                                      response.tweet_id, response.text,
                                      wants_to_talk, time)
        call == initiate_call_for_user(marked, response.user_id,
                                       response.username, phone_number, backend,
                                       time)
        call_file ==
            initiate_call_for_user_file(marked_file, marked, response.user_id,
                                        response.username, phone_number, backend,
                                        time)
    IN  IF wants_to_talk
        THEN [tracking |-> call.tracking, file |-> call_file,
              calls |-> <<AnalysisCall(k, response, wants_to_talk),
                          MarkCall(k, response, wants_to_talk),
                          InitiationCall(k, response)>>]
        ELSE [tracking |-> marked, file |-> marked_file,
              calls |-> <<AnalysisCall(k, response, wants_to_talk),
                          MarkCall(k, response, wants_to_talk)>>]

\* lines 233-274: the for loop of monitor_and_call from its k-th response
\* on.  grok[k] and backend[k] are the responses the calls for the k-th
\* reply meet.  Gives the tracking data, its file and the calls made.
RECURSIVE HandleResponses(_, _, _, _, _, _, _, _)
HandleResponses(k, responses, tracking, file, calls, grok, backend, time) ==
    IF k > Len(responses)
    THEN [tracking |-> tracking, file |-> file, calls |-> calls]
    ELSE LET done == HandleResponse(k, responses[k], tracking, file, grok[k],
                                    backend[k], time)
         IN  HandleResponses(k + 1, responses, done.tracking, done.file,
                             calls \o done.calls, grok, backend, time)

(***************************************************************************)
(* voice_support_backend.memory_manager.MemoryManager.  mm is the manager  *)
(* with its storage: mm.mem0 says whether the memory library is there      *)
(* ("absent": the import failed or the initialisation raised; "failing":   *)
(* its calls raise; "ok"), mm.memory_files gives, for every user that has  *)
(* a <user_id>_memory.json file, the list "memories" of that file, and     *)
(* mm.history_files, for every user that has a <user_id>_history.json      *)
(* file, the list "conversations" of that file.                            *)
(***************************************************************************)
\* s[:n]
SliceTo(s, n) ==
    IF n >= 0 THEN SubSeq(s, 1, Min(n, Len(s)))
    ELSE SubSeq(s, 1, Max(Len(s) + n, 0))

\* lines 131-143: the list "memories" of the user's file
get_file_memory(mm, user_id) ==
    IF user_id \in DOMAIN mm.memory_files THEN mm.memory_files[user_id] ELSE <<>>

\* faulty variant: the texts are compared as they are written
search_file_memories_CaseSensitive(mm, user_id, query, limit) ==
    LET memories == get_file_memory(mm, user_id)
        Matches(mem) == Contains(Get(mem, "text", <<>>), query)
    IN  SliceTo(SelectSeq(memories, Matches), limit)

\* lines 196-208
search_file_memories(mm, user_id, query, limit) ==
    LET memories == get_file_memory(mm, user_id)
        query_lower == Lower(query)
        Matches(mem) == Contains(Lower(Get(mem, "text", <<>>)), query_lower)
    IN  SliceTo(SelectSeq(memories, Matches), limit)

\* lines 99-113.  found is what the library's search gives when it works
search_memories(mm, user_id, query, limit, found) ==
    IF mm.mem0 = "ok" THEN found
    ELSE search_file_memories(mm, user_id, query, limit)

\* lines 145-162: the storage after the call
save_file_memory(mm, user_id, memory_text, time) ==
    LET memory_entry == [text |-> memory_text, timestamp |-> time]
    IN  [mm EXCEPT !.memory_files =
            (user_id :> Append(get_file_memory(mm, user_id), memory_entry)) @@ @]

\* lines 67-81: the storage after the call; with the library at work the
\* memory goes to the library and the files stay as they are
add_memory(mm, user_id, memory_text, time) ==
    IF mm.mem0 = "ok" THEN mm
    ELSE save_file_memory(mm, user_id, memory_text, time)

\* lines 52-65.  all is what the library's get_all gives when it works
get_user_memory(mm, user_id, all) ==
    IF mm.mem0 = "ok" THEN [memories |-> all, count |-> Len(all)]
    ELSE [memories |-> get_file_memory(mm, user_id),
          count |-> Len(get_file_memory(mm, user_id))]

\* lines 164-194: the storage after the call
save_message(mm, user_id, role, content, timestamp) ==
    LET data == IF user_id \in DOMAIN mm.history_files
                THEN mm.history_files[user_id] ELSE <<>>
        conversations ==
            IF data = <<>> \/ data[Len(data)].ended
            THEN Append(data, [started_at |-> timestamp, messages |-> <<>>,
                               ended |-> FALSE])
            ELSE data
        last == Len(conversations)
        message == [role |-> role, content |-> content, timestamp |-> timestamp]
    IN  [mm EXCEPT !.history_files =
            (user_id :> [conversations EXCEPT ![last].messages = Append(@, message)])
                @@ @]

\* lines 83-97: MemoryManager.add_message, the storage after the call
MemoryManager_add_message(mm, user_id, role, content, time) ==
    LET saved == save_message(mm, user_id, role, content, time)
    IN  IF role = "user" /\ Len(content) > SubstantialLength
        THEN add_memory(saved, user_id, <<"User said: ">> \o content, time)
        ELSE saved

(***************************************************************************)
(* voice_support_backend.conversation_graph.ConversationGraph.  state is   *)
(* the ConversationState handed from node to node; relevant_memories is    *)
(* state["memory"]["relevant_memories"], empty while it is not set.        *)
(***************************************************************************)
\* lines 65-70: the edges of the compiled graph
entry_point == "analyze_context"

\* faulty variant: the graph ends after the response is drafted
Edge_EndsAfterDraft(node) ==
    CASE node = "analyze_context" -> "retrieve_memory"
      [] node = "retrieve_memory" -> "generate_response"
      [] node = "generate_response" -> "END"
      [] node = "update_memory" -> "END"

Edge(node) ==
    CASE node = "analyze_context" -> "retrieve_memory"
      [] node = "retrieve_memory" -> "generate_response"
      [] node = "generate_response" -> "update_memory"
      [] node = "update_memory" -> "END"

\* lines 75-79
analyze_context_node(st) == st

\* lines 81-92
retrieve_memory_node(st, mm, found) ==
    IF st.user_message # <<>>
    THEN [st EXCEPT !.relevant_memories =
             search_memories(mm, st.user_id, st.user_message, SearchLimit, found)]
    ELSE st

CannedResponse == <<"I'm here to listen and support you. How are you feeling right now?">>

\* lines 94-193.  resp is what the chat-completion request meets: 200
\* ("ok"), another status ("http_error") or an exception ("conn_error")
generate_response_node(st, resp) ==
    [st EXCEPT !.response = IF resp.status = "ok" THEN Strip(resp.content)
                            ELSE CannedResponse,
               !.reasoning = "Generated response using context-aware Grok API"]

\* lines 195-209: the state and the storage after the node
update_memory_node(st, mm, all, time) ==
    LET after == IF st.user_message # <<>> /\ Len(st.user_message) > MemoryThreshold
                 THEN add_memory(mm, st.user_id,
                                 <<"User said: ">> \o st.user_message, time)
                 ELSE mm
    IN  [state |-> [st EXCEPT !.updated_memory =
                       get_user_memory(after, st.user_id, all)],
         mm |-> after]

(***************************************************************************)
(* voice_support_backend.main: the handlers of the backend.  Each gives    *)
(* the mapping of active conversations and the storage after the request,  *)
(* and the response.                                                       *)
(***************************************************************************)
\* rag_manager.py lines 174-204: the context given without a vector store
FallbackContext == <<"emotional_support", "coping_strategies", "encouragement">>

\* main.py line 149: the time is written to the second
ConversationId(user_id, time) == <<"conv_", user_id, "_", time>>

\* conversation_graph.py lines 211-275.  resp is what the chat-completion
\* request meets; a context whose sentiment_analysis is null makes line 222
\* raise AttributeError
generate_initial_greeting(username, context, resp) ==
    IF context # NoneDict /\ Get(context, "sentiment_analysis", "absent") = None
    THEN Raise("AttributeError")
    ELSE IF resp.status = "ok" THEN Return(Strip(resp.content))
         ELSE Return(<<"Hi ", username, ", I saw your post and wanted to reach out.">>)

\* faulty variant: an entry that is there is kept
initiate_call_KeepsEntry(active, mm, request, time, resp, all) ==
    LET conversation_id == ConversationId(request.user_id, time)
        entry == [user_id      |-> request.user_id,
                  username     |-> request.username,
                  phone_number |-> request.phone_number,
                  context      |-> IF request.context = NoneDict THEN EmptyDict
                                   ELSE request.context,
                  memory       |-> get_user_memory(mm, request.user_id, all),
                  rag_context  |-> FallbackContext,
                  started_at   |-> time,
                  messages     |-> <<>>]
    IN  [active |-> active @@ (conversation_id :> entry),
         response |-> [status_code |-> 200, conversation_id |-> conversation_id]]

\* lines 135-177
initiate_call(active, mm, request, time, resp, all) ==
    LET user_memory == get_user_memory(mm, request.user_id, all)
        conversation_id == ConversationId(request.user_id, time)
        entry == [user_id      |-> request.user_id,
                  username     |-> request.username,
                  phone_number |-> request.phone_number,
                  context      |-> IF request.context = NoneDict THEN EmptyDict
                                   ELSE request.context,
                  memory       |-> user_memory,
                  rag_context  |-> FallbackContext,
                  started_at   |-> time,
                  messages     |-> <<>>]
        initial_message ==
            generate_initial_greeting(request.username, request.context, resp)
    IN  [active |-> (conversation_id :> entry) @@ active,
         response |->
            IF initial_message.raised
            THEN [status_code |-> 500, conversation_id |-> conversation_id]
            ELSE [status_code     |-> 200,
                  conversation_id |-> conversation_id,
                  initial_message |-> initial_message.value,
                  phone_number    |-> request.phone_number,
                  status          |-> "ready"]]

\* lines 194-214
add_message(active, mm, conversation_id, message, time) ==
    IF conversation_id \notin DOMAIN active
    THEN [active |-> active, mm |-> mm, response |-> [status_code |-> 404]]
    ELSE LET conv == active[conversation_id]
         IN  [active |-> [active EXCEPT ![conversation_id].messages =
                             Append(@, message)],
              mm |-> MemoryManager_add_message(mm, conv.user_id, message.role,
                                               message.content, time),
              response |-> [status_code |-> 200, status |-> "added"]]

\* conversation_graph.py lines 277-319: generate_response runs the graph
\* when it was built, otherwise the drafting node alone, whose state it
\* returns as it is.  found and all are what the memory library gives, resp
\* what the chat-completion request meets.  Gives the value returned and the
\* storage after.
ConversationGraph_generate_response(available, user_id, username, user_message, mm, found, resp, all, time) ==
    LET st == [user_id |-> user_id, username |-> username,
               user_message |-> user_message, relevant_memories |-> <<>>,
               response |-> <<>>, reasoning |-> "",
               updated_memory |-> EmptyDict]
    IN  IF available
        THEN LET retrieved == retrieve_memory_node(analyze_context_node(st), mm, found)
                 drafted == generate_response_node(retrieved, resp)
                 updated == update_memory_node(drafted, mm, all, time)
             IN  [result |-> [content        |-> updated.state.response,
                              reasoning      |-> updated.state.reasoning,
                              updated_memory |-> updated.state.updated_memory],
                  mm |-> updated.mm]
        ELSE [result |-> generate_response_node(st, resp), mm |-> mm]

\* faulty variant: a conversation that is not known is started
generate_response_Starts(active, mm, available, conversation_id, user_message, found, resp, all, time) ==
    IF conversation_id \notin DOMAIN active
    THEN [active |-> (conversation_id :> [user_id |-> None, username |-> None,
                                          messages |-> <<>>]) @@ active,
          mm |-> mm, response |-> [status_code |-> 404]]
    ELSE [active |-> active, mm |-> mm, response |-> [status_code |-> 500]]

\* main.py lines 217-239.  response["content"] raises KeyError on a value
\* without that key, which the framework answers with status 500
generate_response(active, mm, available, conversation_id, user_message, found, resp, all, time) ==
    IF conversation_id \notin DOMAIN active
    THEN [active |-> active, mm |-> mm, response |-> [status_code |-> 404]]
    ELSE LET conv == active[conversation_id]
             r == ConversationGraph_generate_response(available, conv.user_id,
                      conv.username, user_message, mm, found, resp, all, time)
         IN  [active |-> active,
              mm |-> r.mm,
              response |->
                  IF "content" \in DOMAIN r.result
                  THEN [status_code    |-> 200,
                        response       |-> r.result.content,
                        reasoning      |-> r.result.reasoning,
                        updated_memory |-> r.result.updated_memory]
                  ELSE [status_code |-> 500]]

\* main.py lines 242-249: the channel is accepted, and closed at once when
\* the conversation is not known
websocket_conversation(active, conversation_id) ==
    IF conversation_id \notin DOMAIN active
    THEN [accepted |-> TRUE, closed |-> TRUE, code |-> 1008]
    ELSE [accepted |-> TRUE, closed |-> FALSE]

\* main.py lines 251-267: one turn of the loop of an open channel.  An
\* exception of generate_response leaves the handler and ends the channel
websocket_receive(active, mm, available, conversation_id, message_data, found, resp, all, time) ==
    IF message_data.type = "user_message"
    THEN LET r == generate_response(active, mm, available, conversation_id,
                                    message_data.content, found, resp, all, time)
         IN  [active |-> r.active, mm |-> r.mm,
              response |->
                  IF r.response.status_code = 200
                  THEN [closed |-> FALSE,
                        sent |-> <<[type |-> "assistant_message",
                                    content |-> r.response.response,
                                    timestamp |-> time]>>]
                  ELSE [closed |-> TRUE, sent |-> <<>>]]
    ELSE [active |-> active, mm |-> mm,
          response |-> [closed |-> FALSE, sent |-> <<>>]]

\* faulty variant: the file with the latest name comes first
FirstSorted_ByName(fs) == {f \in fs : \A g \in fs : g.name[2] <= f.name[2]}

\* lines 114-118: the files that can come first when the reports are
\* sorted by modification time, latest first; files modified at the same
\* time keep the order the directory listing gave them
FirstSorted(fs) == {f \in fs : \A g \in fs : g.mtime <= f.mtime}

\* lines 120-132.  first is support_files[0] when there is a file
get_users_needing_support(fs, first) ==
    IF fs = {} THEN [users |-> <<>>]
    ELSE [users          |-> Get(first.data, "results", <<>>),
          scan_timestamp |-> Get(first.data, "scan_timestamp", None),
          total_found    |-> Len(Get(first.data, "results", <<>>))]

(***************************************************************************)
(* State.                                                                  *)
(*   req, ret         a single call of one of the functions above: the     *)
(*                    function, its arguments and the HTTP response it     *)
(*                    meets; what it gave back                             *)
(*   pc .. returned   one run of scan_and_analyze                          *)
(***************************************************************************)
VARIABLES
    req,            \* the call to make: [fn, ...arguments..., resp]
    ret,            \* "pending", or what the call gave back
    pc,             \* position in scan_and_analyze
    query,          \* argument query
    max_posts,      \* argument max_posts
    dry_run,        \* argument dry_run
    posts,          \* local posts
    idx,            \* loop index (from 1) of the running loop
    negative_posts, \* local negative_posts
    results_data,   \* local results_data
    files,          \* the report files written, in order
    now,            \* the clock, advanced by time.sleep
    log,            \* the calls made so far: [op, i, resp]
    returned,       \* the value returned, once pc = "done"
    mpc,            \* position in monitor_and_call
    tracking_data,  \* response_tracker.tracking_data
    tracking_file,  \* user_responses.json: the saves made and its content
    check_interval, \* argument check_interval
    iteration,      \* the number of polls made
    clock,          \* the clock of the monitoring process, in seconds
    calls,          \* the tracker calls and the prints of the loop, in order
    mexc,           \* the last exception raised in monitor_and_call
    gpc,            \* position in ConversationGraph.generate_response
    LANGGRAPH_AVAILABLE, \* whether the graph library was imported
    state,          \* the ConversationState of the call
    nodes_run,      \* the nodes run in the call, in order
    memory_manager, \* the storage of the memory manager
    result,         \* what generate_response returned
    active_conversations, \* main.active_conversations
    wall,           \* the clock of the backend's host, in seconds
    served,         \* the requests the backend handled, with their responses
    report_files,   \* the support_outreach_*.json files of the directory
    script,         \* the top-level script that is run
    args,           \* its command line
    env,            \* its environment variables
    spc,            \* position in its main
    cause,          \* what ended its work: "none", or the exception raised
    exit_status     \* the exit status of the process

callVars == <<req, ret>>
scanVars == <<pc, query, max_posts, dry_run, posts, idx, negative_posts,
              results_data, files, now, log, returned>>
monVars == <<mpc, tracking_data, tracking_file, check_interval, iteration, clock, calls, mexc>>
graphVars == <<gpc, LANGGRAPH_AVAILABLE, state, nodes_run, memory_manager, result>>
svcVars == <<active_conversations, wall, served, report_files>>
scriptVars == <<script, args, env, spc, cause, exit_status>>
otherVars == <<monVars, graphVars, svcVars, scriptVars>>
vars == <<callVars, scanVars, monVars, graphVars, svcVars, scriptVars>>

(***************************************************************************)
(* Inputs.                                                                 *)
(***************************************************************************)
\* sequences over S of length at most n
SeqUpTo(S, n) == UNION {[1..k -> S] : k \in 0..n}

ContentAlphabet == {"F", "j", "w", "N", "T", "Oft", "{", "}"}
Contents == SeqUpTo(ContentAlphabet, MaxContentLen)

FailResps == {[status |-> st] : st \in FailStatus}
OkContent(c) == [status |-> "ok", content |-> c]
OkBody(b) == [status |-> "ok", body |-> b]

QueryAlphabet == {"w", "x"}
Queries == SeqUpTo(QueryAlphabet, MaxQueryLen)
ResultCaps == (0 - ClampMargin)..(MaxResults + ClampMargin)

Tweet1 == [id |-> "1", text |-> "text1", author_id |-> "a1"]
Tweet2 == [id |-> None, text |-> "text2", author_id |-> "a2"]
Tweets == {Tweet1, Tweet2}
IncludedUsers == [a \in {"a1"} |-> [username |-> "u1", name |-> "U1"]]
SearchBody(data) == [errors |-> FALSE, data |-> data, users |-> IncludedUsers]
ErrorsBody == [errors |-> TRUE, data |-> <<>>, users |-> EmptyDict]
SearchResps ==
    FailResps \cup {OkBody(ErrorsBody)}
        \cup {OkBody(SearchBody(d)) : d \in SeqUpTo(Tweets, MaxPosts)}

FullUser ==
    [username |-> "u1", name |-> "U1", description |-> "d", location |-> "l",
     url |-> "w"]
UserResps ==
    FailResps \cup {OkBody([data |-> FullUser]), OkBody([data |-> [name |-> "U1"]]),
                    OkBody(EmptyDict)}

MessageContents ==
    {<<"m">>, <<"w", "q", "m", "q", "w">>, <<"@", "m">>, <<"q", "w", "q">>, <<>>}
MessageResps == FailResps \cup {OkContent(c) : c \in MessageContents}

TrendResps == FailResps \cup {OkBody([data |-> [trend_name |-> "trend"]])}
CallResps == FailResps \cup {OkBody([conversation_id |-> "conv"]), OkBody(EmptyDict)}
Phones == {None, "", "555"}

MemoryTexts == {<<"n">>, <<"N", "x">>, <<"x">>}
\* the lists of memories of user a1: the k-th was saved at time k
OwnMemories ==
    UNION {{[i \in 1..k |-> [text |-> f[i], timestamp |-> i]] :
               f \in [1..k -> MemoryTexts]} : k \in 0..MaxMemories}
\* the memories of another user
OtherMemories == <<[text |-> <<"n">>, timestamp |-> 11]>>
MemoryFiles ==
    {[u \in {"a1"} |-> own] : own \in OwnMemories}
        \cup {[u \in {"a1", "a2"} |-> IF u = "a1" THEN own ELSE OtherMemories] :
                 own \in OwnMemories}
MemoryQueries == {<<>>, <<"n">>, <<"N">>, <<"x", "n">>, <<"n", "x">>}
Limits == (0 - 1)..(MaxMemories + 1)
Mem0Modes == {"absent", "failing", "ok"}
LibraryResults == {<<>>, <<[text |-> <<"n">>, timestamp |-> 99]>>}

\* the replies of a user, and what the LLM call on a reply gives: an
\* exception, the verdict of a failed request, or a verdict of the LLM
ReplyWords == {"yes", "YES", "no", "NO", "know", "x"}
ReplyTexts == SeqUpTo(ReplyWords, MaxReplyLen)
PositiveVerdict(needs_support) ==
    [is_negative   |-> FALSE,
     sentiment     |-> "positive",
     severity      |-> "low",
     concerns      |-> <<>>,
     needs_support |-> needs_support,
     reasoning     |-> <<"r">>]
ReplyAnalyses ==
    {Raise("Exception"), Return(ErrorVerdict)}
        \cup {Return(ObjectOf(o)) : o \in ObjectSyms}
        \cup {Return(PositiveVerdict(b)) : b \in BOOLEAN}

(***************************************************************************)
(* SpecCalls: one call of one function, for every request of Requests.     *)
(***************************************************************************)
Pending == [pending |-> TRUE]
NoRequest == [fn |-> "none"]

ScanIdle ==
    /\ pc = "idle"
    /\ query = <<>>
    /\ max_posts = 0
    /\ dry_run = FALSE
    /\ posts = <<>>
    /\ idx = 0
    /\ negative_posts = <<>>
    /\ results_data = <<>>
    /\ files = <<>>
    /\ now = 0
    /\ log = <<>>
    /\ returned = <<>>

CallIdle == req = NoRequest /\ ret = Pending

MonIdle ==
    /\ mpc = "idle"
    /\ tracking_data = EmptyTracking
    /\ tracking_file = NoTrackingFile
    /\ check_interval = 0
    /\ iteration = 0
    /\ clock = 0
    /\ calls = <<>>
    /\ mexc = None

NoMemories ==
    [mem0 |-> "absent", memory_files |-> EmptyDict, history_files |-> EmptyDict]
NoState ==
    [user_id |-> None, username |-> None, user_message |-> <<>>,
     relevant_memories |-> <<>>, response |-> <<>>, reasoning |-> "",
     updated_memory |-> EmptyDict]

GraphIdle ==
    /\ gpc = "idle"
    /\ LANGGRAPH_AVAILABLE = FALSE
    /\ state = NoState
    /\ nodes_run = <<>>
    /\ memory_manager = NoMemories
    /\ result = Pending

SvcIdle ==
    /\ active_conversations = EmptyDict
    /\ wall = 0
    /\ served = <<>>
    /\ report_files = {}

ScriptIdle ==
    /\ script = "none"
    /\ args = "none"
    /\ env = EmptyDict
    /\ spc = "idle"
    /\ cause = "none"
    /\ exit_status = None

\* The requests: every function with every argument and response
InitCalls ==
    /\ \/ \E r \in FailResps : req = [fn |-> "analyze_sentiment", resp |-> r]
       \/ \E c \in Contents : req = [fn |-> "analyze_sentiment", resp |-> OkContent(c)]
       \/ \E q \in Queries, m \in ResultCaps, r \in SearchResps :
             req = [fn |-> "search_posts", query |-> q, max_results |-> m, resp |-> r]
       \/ \E r \in UserResps : req = [fn |-> "get_user_info", resp |-> r]
       \/ \E r \in UserResps : req = [fn |-> "find_contact_info", resp |-> r]
       \/ \E r \in MessageResps :
             req = [fn |-> "generate_support_message", username |-> "u1", resp |-> r]
       \/ \E m \in MessageContents : req = [fn |-> "send_direct_message", message |-> m]
       \/ \E r \in TrendResps : req = [fn |-> "fetch_trends_by_woeid", resp |-> r]
       \/ \E ph \in Phones, r \in CallResps :
             req = [fn |-> "initiate_call_for_user", phone_number |-> ph, resp |-> r]
       \/ \E mode \in Mem0Modes, fs \in MemoryFiles, u \in {"a1", "a3"},
             q \in MemoryQueries, l \in Limits, found \in LibraryResults :
             req = [fn |-> "search_memories",
                    mm |-> [mem0 |-> mode, memory_files |-> fs,
                           history_files |-> EmptyDict],
                    user_id |-> u, query |-> q, limit |-> l, found |-> found]
       \/ \E t \in ReplyTexts, a \in ReplyAnalyses :
             req = [fn |-> "analyze_response_sentiment", response_text |-> t,
                    analysis |-> a]
    /\ ret = Pending
    /\ ScanIdle
    /\ MonIdle
    /\ GraphIdle
    /\ SvcIdle
    /\ ScriptIdle

CallAnalyzeSentiment ==
    /\ req.fn = "analyze_sentiment" /\ ret = Pending
    /\ ret' = analyze_sentiment(req.resp)
    /\ UNCHANGED <<req, scanVars, otherVars>>

\* the parameters sent with the request are kept next to the result
CallSearchPosts ==
    /\ req.fn = "search_posts" /\ ret = Pending
    /\ ret' = [raised |-> search_posts(req.query, req.max_results, req.resp).raised,
               value  |-> search_posts(req.query, req.max_results, req.resp).value,
               params |-> SearchParams(req.query, req.max_results)]
    /\ UNCHANGED <<req, scanVars, otherVars>>

CallGetUserInfo ==
    /\ req.fn = "get_user_info" /\ ret = Pending
    /\ ret' = get_user_info(req.resp)
    /\ UNCHANGED <<req, scanVars, otherVars>>

CallFindContactInfo ==
    /\ req.fn = "find_contact_info" /\ ret = Pending
    /\ ret' = Return(find_contact_info(req.resp))
    /\ UNCHANGED <<req, scanVars, otherVars>>

CallGenerateSupportMessage ==
    /\ req.fn = "generate_support_message" /\ ret = Pending
    /\ ret' = generate_support_message(req.resp, req.username)
    /\ UNCHANGED <<req, scanVars, otherVars>>

CallSendDirectMessage ==
    /\ req.fn = "send_direct_message" /\ ret = Pending
    /\ ret' = send_direct_message("a1", req.message)
    /\ UNCHANGED <<req, scanVars, otherVars>>

CallFetchTrends ==
    /\ req.fn = "fetch_trends_by_woeid" /\ ret = Pending
    /\ ret' = fetch_trends_by_woeid(req.resp)
    /\ UNCHANGED <<req, scanVars, otherVars>>

CallInitiateCall ==
    /\ req.fn = "initiate_call_for_user" /\ ret = Pending
    /\ ret' = initiate_call_for_user(EmptyTracking, "a1", "u1", req.phone_number,
                                     req.resp, 0)
    /\ UNCHANGED <<req, scanVars, otherVars>>

CallSearchMemories ==
    /\ req.fn = "search_memories" /\ ret = Pending
    /\ ret' = Return(search_memories(req.mm, req.user_id, req.query, req.limit,
                                     req.found))
    /\ UNCHANGED <<req, scanVars, otherVars>>

CallAnalyzeResponseSentiment ==
    /\ req.fn = "analyze_response_sentiment" /\ ret = Pending
    /\ ret' = Return(analyze_response_sentiment(req.response_text, req.analysis))
    /\ UNCHANGED <<req, scanVars, otherVars>>

NextCalls ==
    \/ CallAnalyzeSentiment
    \/ CallSearchPosts
    \/ CallGetUserInfo
    \/ CallFindContactInfo
    \/ CallGenerateSupportMessage
    \/ CallSendDirectMessage
    \/ CallFetchTrends
    \/ CallInitiateCall
    \/ CallSearchMemories
    \/ CallAnalyzeResponseSentiment

SpecCalls == InitCalls /\ [][NextCalls]_vars

(***************************************************************************)
(* scan_and_analyze (Spec): one run, for every response of every call.     *)
(***************************************************************************)
DefaultMaxPosts == 50

ScanQueries == {<<"x">>}
ScanContents ==
    {<<"Ott">>, <<"Otf">>, <<"Oe">>, <<"F", "j", "w", "Oft", "w", "F">>, <<"N", "x">>}
AnalyzeResps == {[status |-> "http_error"]} \cup {OkContent(c) : c \in ScanContents}
ContactResps ==
    {[status |-> "conn_error"], OkBody([data |-> FullUser]),
     OkBody([data |-> [name |-> "U1"]])}
DraftResps == {[status |-> "http_error"], OkContent(<<"@", "m">>)}

Init ==
    /\ req = NoRequest
    /\ ret = Pending
    /\ pc = "start"
    /\ query \in ScanQueries
    /\ max_posts = DefaultMaxPosts
    /\ dry_run \in BOOLEAN
    /\ posts = <<>>
    /\ idx = 0
    /\ negative_posts = <<>>
    /\ results_data = <<>>
    /\ files = <<>>
    /\ now = 0
    /\ log = <<>>
    /\ returned = <<>>
    /\ MonIdle
    /\ GraphIdle
    /\ SvcIdle
    /\ ScriptIdle

\* One entry of the log of calls: the i-th call of op in its loop, the
\* response it met, what it gave back
Entry(op, i, resp, out) == [op |-> op, i |-> i, resp |-> resp, out |-> out]

\* faulty variant: one flag is enough
Keep_EitherFlag(analysis) ==
    Truthy(analysis, "is_negative") \/ Truthy(analysis, "needs_support")

\* line 419
Keep(analysis) == Truthy(analysis, "is_negative") /\ Truthy(analysis, "needs_support")

\* faulty variant: a post already kept is not kept again
AppendKept_Dedup(kept, post, analysis) ==
    IF \E k \in 1..Len(kept) : kept[k].post = post THEN kept
    ELSE Append(kept, [post |-> post, analysis |-> analysis])

\* lines 424-427
AppendKept(kept, post, analysis) ==
    Append(kept, [post |-> post, analysis |-> analysis])

\* line 469
PostUrl(post, contact_info) ==
    IF post.id # None
    THEN <<"https://twitter.com/", Get(contact_info, "username", None),
           "/status/", post.id>>
    ELSE <<>>

\* faulty variant: the record's username is the one of the search result
ResultEntry_PostUsername(post, analysis, contact_info, support_message, time) ==
    [username           |-> post.username,
     user_id            |-> post.author_id,
     profile_url        |-> Get(contact_info, "profile_url", <<>>),
     original_post      |-> post.text,
     post_url           |-> PostUrl(post, contact_info),
     sentiment_analysis |-> analysis,
     support_message    |-> support_message,
     contact_info       |-> contact_info,
     timestamp          |-> time]

\* lines 464-474
ResultEntry(post, analysis, contact_info, support_message, time) ==
    [username           |-> Get(contact_info, "username", None),
     user_id            |-> post.author_id,
     profile_url        |-> Get(contact_info, "profile_url", <<>>),
     original_post      |-> post.text,
     post_url           |-> PostUrl(post, contact_info),
     sentiment_analysis |-> analysis,
     support_message    |-> support_message,
     contact_info       |-> contact_info,
     timestamp          |-> time]

\* faulty variant: outside a dry run the message is handed to send_direct_message
Delivery_Sends(dry, post, message) ==
    IF ~dry
    THEN <<Entry("send_direct_message", 0, [status |-> "none"],
                 send_direct_message(post.author_id, message).value)>>
    ELSE <<>>

\* lines 477-487: the calls made to deliver the message: both branches only
\* print
Delivery(dry, post, message) == <<>>

\* faulty variant: the report counts the fetched posts as found
Report_CountsFetched(time) ==
    [scan_timestamp       |-> time,
     query                |-> query,
     total_posts_scanned  |-> Len(posts),
     negative_posts_found |-> Len(posts),
     results              |-> results_data]

\* lines 497-503
Report(time) ==
    [scan_timestamp       |-> time,
     query                |-> query,
     total_posts_scanned  |-> Len(posts),
     negative_posts_found |-> Len(negative_posts),
     results              |-> results_data]

\* faulty variant: the report is written whether or not there are records
WriteReport_Always(fs, records, report) == Append(fs, report)

\* lines 495-496: the files after the save step
WriteReport(fs, records, report) ==
    IF records # <<>> THEN Append(fs, report) ELSE fs

\* lines 397-405
Search ==
    /\ pc = "start"
    /\ \E resp \in SearchResps :
        LET r == search_posts(query, max_posts, resp)
        IN  /\ log' = Append(log, Entry("search_posts", 0, resp, r.value))
            /\ IF r.raised
               THEN /\ pc' = "raised"
                    /\ UNCHANGED <<posts, idx, returned>>
               ELSE /\ posts' = r.value
                    /\ IF r.value = <<>>
                       THEN pc' = "done" /\ returned' = <<>> /\ idx' = idx
                       ELSE pc' = "analyze" /\ idx' = 1 /\ returned' = returned
    /\ UNCHANGED <<callVars, otherVars, query, max_posts, dry_run, negative_posts,
                   results_data, files, now>>

\* lines 410-430: one iteration of the first loop; after the last one the
\* second loop starts (lines 432-441), or the save step when nothing was kept
Analyze ==
    /\ pc = "analyze"
    /\ \E resp \in AnalyzeResps :
        LET r == analyze_sentiment(resp)
            kept == IF Keep(r.value)
                    THEN AppendKept(negative_posts, posts[idx], r.value)
                    ELSE negative_posts
        IN  /\ log' = Append(log, Entry("analyze_sentiment", idx, resp, r.value))
            /\ IF r.raised
               THEN /\ pc' = "raised"
                    /\ UNCHANGED <<negative_posts, now, idx>>
               ELSE /\ negative_posts' = kept
                    /\ now' = now + SleepAnalyze
                    /\ IF idx < Len(posts)
                       THEN pc' = "analyze" /\ idx' = idx + 1
                       ELSE /\ pc' = IF kept = <<>> THEN "save" ELSE "process"
                            /\ idx' = 1
    /\ UNCHANGED <<callVars, otherVars, query, max_posts, dry_run, posts, results_data,
                   files, returned>>

\* lines 441-492: one iteration of the second loop
Process ==
    /\ pc = "process"
    /\ \E cresp \in ContactResps, mresp \in DraftResps :
        LET post == negative_posts[idx].post
            analysis == negative_posts[idx].analysis
            contact_info == find_contact_info(cresp)
            m == generate_support_message(mresp, post.username)
        IN  /\ log' = log
                    \o <<Entry("find_contact_info", idx, cresp, contact_info),
                          Entry("generate_support_message", idx, mresp, m.value)>>
                    \o Delivery(dry_run, post, m.value)
            /\ IF m.raised
               THEN /\ pc' = "raised"
                    /\ UNCHANGED <<results_data, now, idx>>
               ELSE /\ results_data' =
                        Append(results_data,
                               ResultEntry(post, analysis, contact_info, m.value, now))
                    /\ now' = now + SleepProcess
                    /\ IF idx < Len(negative_posts)
                       THEN pc' = "process" /\ idx' = idx + 1
                       ELSE pc' = "save" /\ idx' = idx
    /\ UNCHANGED <<callVars, otherVars, query, max_posts, dry_run, posts, negative_posts,
                   files, returned>>

\* lines 494-509
Save ==
    /\ pc = "save"
    /\ files' = WriteReport(files, results_data, Report(now))
    /\ returned' = results_data
    /\ pc' = "done"
    /\ UNCHANGED <<callVars, otherVars, query, max_posts, dry_run, posts, idx,
                   negative_posts, results_data, now, log>>

Next == Search \/ Analyze \/ Process \/ Save

Spec == Init /\ [][Next]_vars

\* The run is one sequential thread: a step that can be taken is taken
SpecFair == Spec /\ WF_vars(Next)

(***************************************************************************)
(* SpecMonitor: one call of response_tracker.monitor_and_call.  An         *)
(* iteration is the poll with its for loop, then the sleep; an exception   *)
(* raised in either is handled by the except clauses of the try.  A        *)
(* statement can be hit by a KeyboardInterrupt (the interrupt signal can   *)
(* come at any time) and a print by an error of the output stream;         *)
(* time.sleep raises ValueError for a negative length.                     *)
(***************************************************************************)
Faults == {"none", "Exception", "KeyboardInterrupt"}

Offer1 == record_offer_sent(EmptyTracking, "a1", "u1", "1", "r1", 0)
InitialTrackings ==
    {EmptyTracking, Offer1,
     initiate_call_for_user(Offer1, "a2", "u2", "555",
                            OkBody([conversation_id |-> "conv"]), 0).tracking}

CheckIntervals == {0 - 1, 0, 300}

\* the responses the LLM call and the call-initiate request of the loop meet
MonitorGrokResps == {[status |-> "http_error"], OkContent(<<"Oft">>)}
MonitorBackendResps == {[status |-> "conn_error"], OkBody([conversation_id |-> "conv"])}

InitMonitor ==
    /\ CallIdle
    /\ ScanIdle
    /\ mpc = "poll"
    /\ tracking_data \in InitialTrackings
    /\ tracking_file = LoadedFrom(tracking_data)
    /\ check_interval \in CheckIntervals
    /\ iteration = 0
    /\ clock = 0
    /\ calls = <<>>
    /\ mexc = None
    /\ GraphIdle
    /\ SvcIdle
    /\ ScriptIdle

\* lines 229-274: the poll, which gives responses, and the for loop over
\* them
PollGiving(responses) ==
    /\ mpc = "poll"
    /\ iteration < MaxIterations
    /\ iteration' = iteration + 1
    /\ \E fault \in Faults :
        \E grok \in [1..Len(responses) -> MonitorGrokResps],
           backend \in [1..Len(responses) -> MonitorBackendResps] :
            LET polled == Append(calls, [op |-> "check_user_responses",
                                         returned |-> responses])
                done == HandleResponses(1, responses, tracking_data,
                                        tracking_file, polled, grok, backend,
                                        clock)
            IN  IF fault = "none"
                THEN /\ tracking_data' = done.tracking
                     /\ tracking_file' = done.file
                     /\ calls' = done.calls
                     /\ mpc' = "sleep"
                     /\ mexc' = mexc
                ELSE /\ mexc' = fault
                     /\ mpc' = IF fault = "KeyboardInterrupt"
                               THEN "interrupted" ELSE "handler"
                     /\ UNCHANGED <<tracking_data, tracking_file, calls>>
    /\ UNCHANGED <<callVars, scanVars, graphVars, svcVars, scriptVars, check_interval, clock>>

Poll == PollGiving(check_user_responses)

\* line 277: the sleep that ends the try block
Sleep ==
    /\ mpc = "sleep"
    /\ IF check_interval < 0
       THEN mexc' = "Exception" /\ mpc' = "handler" /\ clock' = clock
       ELSE \/ mexc' = mexc /\ mpc' = "poll" /\ clock' = clock + check_interval
            \/ mexc' = "KeyboardInterrupt" /\ mpc' = "interrupted" /\ clock' = clock
    /\ UNCHANGED <<callVars, scanVars, graphVars, svcVars, scriptVars, tracking_data, tracking_file, check_interval, iteration, calls>>

\* lines 279-281: except KeyboardInterrupt prints and breaks, and the
\* function returns
Interrupted ==
    /\ mpc = "interrupted"
    /\ calls' = Append(calls, [op |-> "print", text |-> "Monitoring stopped by user"])
    /\ mpc' = "returned"
    /\ UNCHANGED <<callVars, scanVars, graphVars, svcVars, scriptVars, tracking_data, tracking_file, check_interval, iteration,
                   clock, mexc>>

\* lines 282-284: except Exception prints and sleeps; what is raised here
\* is outside the try block and leaves the function
Handler ==
    /\ mpc = "handler"
    /\ \E fault \in Faults :
        IF fault = "none" /\ check_interval >= 0
        THEN /\ calls' = Append(calls, [op |-> "print", text |-> "Error in monitoring loop"])
             /\ clock' = clock + check_interval
             /\ mpc' = "poll"
             /\ mexc' = mexc
        ELSE /\ mexc' = IF fault = "none" THEN "Exception" ELSE fault
             /\ calls' = IF fault = "Exception" THEN calls
                         ELSE Append(calls, [op |-> "print",
                                             text |-> "Error in monitoring loop"])
             /\ mpc' = "raised"
             /\ clock' = clock
    /\ UNCHANGED <<callVars, scanVars, graphVars, svcVars, scriptVars, tracking_data, tracking_file, check_interval, iteration>>

NextMonitor == Poll \/ Sleep \/ Interrupted \/ Handler

SpecMonitor == InitMonitor /\ [][NextMonitor]_vars

(***************************************************************************)
(* SpecReplies: monitor_and_call with a response tracker whose poll gives  *)
(* replies (check_user_responses of ResponseTracker gives none): the loop  *)
(* of SpecMonitor, with the for loop at work.                              *)
(***************************************************************************)
ReplyYes == [user_id |-> "a1", username |-> "u1", text |-> <<"yes">>,
             tweet_id |-> "1", phone_number |-> "555"]
ReplyYesNoPhone == [user_id |-> "a1", username |-> "u1", text |-> <<"yes">>,
                    tweet_id |-> "1"]
ReplyNo == [user_id |-> "a1", username |-> "u1", text |-> <<"no">>,
            tweet_id |-> "1"]
ReplyOther == [user_id |-> "a2", username |-> "u2", text |-> <<"x">>,
               tweet_id |-> "1", phone_number |-> "555"]
PolledReplies ==
    {<<>>, <<ReplyYes>>, <<ReplyOther>>,
     <<ReplyYesNoPhone, ReplyYes>>, <<ReplyYes, ReplyYes>>,
     <<ReplyOther, ReplyNo>>}

\* monitoring starts with the default interval, after an offer was sent
InitReplies ==
    /\ CallIdle
    /\ ScanIdle
    /\ mpc = "poll"
    /\ tracking_data = Offer1
    /\ tracking_file = LoadedFrom(Offer1)
    /\ check_interval = 300
    /\ iteration = 0
    /\ clock = 0
    /\ calls = <<>>
    /\ mexc = None
    /\ GraphIdle
    /\ SvcIdle
    /\ ScriptIdle

PollReplies == \E responses \in PolledReplies : PollGiving(responses)

NextReplies == PollReplies \/ Sleep \/ Interrupted \/ Handler

SpecReplies == InitReplies /\ [][NextReplies]_vars

(***************************************************************************)
(* SpecGraph: one call of ConversationGraph.generate_response, with the    *)
(* graph library present or absent.                                        *)
(***************************************************************************)
LongMessage == [i \in 1..(MemoryThreshold + 1) |-> "x"]
UserMessages == {<<>>, <<"n">>, LongMessage}
GraphMemoryFiles == {EmptyDict, [u \in {"a1"} |-> <<[text |-> <<"N", "x">>, timestamp |-> 1]>>]}
ChatResps == {[status |-> "http_error"], [status |-> "conn_error"],
              OkContent(<<"w", "m", "w">>)}

InitGraph ==
    /\ CallIdle
    /\ ScanIdle
    /\ MonIdle
    /\ gpc = "call"
    /\ LANGGRAPH_AVAILABLE \in BOOLEAN
    /\ \E m \in UserMessages :
          state = [NoState EXCEPT !.user_id = "a1", !.username = "u1",
                                  !.user_message = m]
    /\ nodes_run = <<>>
    /\ \E mode \in Mem0Modes, fs \in GraphMemoryFiles :
          memory_manager = [mem0 |-> mode, memory_files |-> fs,
                            history_files |-> EmptyDict]
    /\ result = Pending
    /\ SvcIdle
    /\ ScriptIdle

\* lines 286-300, 307-308: the graph is run when it was built, otherwise
\* the fallback is taken
Invoke ==
    /\ gpc = "call"
    /\ gpc' = IF LANGGRAPH_AVAILABLE THEN entry_point ELSE "fallback"
    /\ UNCHANGED <<callVars, scanVars, monVars, svcVars, scriptVars, LANGGRAPH_AVAILABLE, state,
                   nodes_run, memory_manager, result>>

AnalyzeContext ==
    /\ gpc = "analyze_context"
    /\ state' = analyze_context_node(state)
    /\ nodes_run' = Append(nodes_run, "analyze_context")
    /\ gpc' = Edge("analyze_context")
    /\ UNCHANGED <<callVars, scanVars, monVars, svcVars, scriptVars, LANGGRAPH_AVAILABLE,
                   memory_manager, result>>

RetrieveMemory ==
    /\ gpc = "retrieve_memory"
    /\ \E found \in LibraryResults :
          state' = retrieve_memory_node(state, memory_manager, found)
    /\ nodes_run' = Append(nodes_run, "retrieve_memory")
    /\ gpc' = Edge("retrieve_memory")
    /\ UNCHANGED <<callVars, scanVars, monVars, svcVars, scriptVars, LANGGRAPH_AVAILABLE,
                   memory_manager, result>>

GenerateResponse ==
    /\ gpc = "generate_response"
    /\ \E resp \in ChatResps : state' = generate_response_node(state, resp)
    /\ nodes_run' = Append(nodes_run, "generate_response")
    /\ gpc' = Edge("generate_response")
    /\ UNCHANGED <<callVars, scanVars, monVars, svcVars, scriptVars, LANGGRAPH_AVAILABLE,
                   memory_manager, result>>

UpdateMemory ==
    /\ gpc = "update_memory"
    /\ \E all \in LibraryResults :
        LET u == update_memory_node(state, memory_manager, all, 2)
        IN  state' = u.state /\ memory_manager' = u.mm
    /\ nodes_run' = Append(nodes_run, "update_memory")
    /\ gpc' = Edge("update_memory")
    /\ UNCHANGED <<callVars, scanVars, monVars, svcVars, scriptVars, LANGGRAPH_AVAILABLE, result>>

\* lines 301-306: what the graph's run is turned into
GraphReturn ==
    /\ gpc = "END"
    /\ result' = [content |-> state.response, reasoning |-> state.reasoning,
                  updated_memory |-> state.updated_memory]
    /\ gpc' = "done"
    /\ UNCHANGED <<callVars, scanVars, monVars, svcVars, scriptVars, LANGGRAPH_AVAILABLE, state,
                   nodes_run, memory_manager>>

\* lines 307-319: the drafting node alone, its state returned as it is
Fallback ==
    /\ gpc = "fallback"
    /\ \E resp \in ChatResps :
          /\ state' = generate_response_node(state, resp)
          /\ result' = generate_response_node(state, resp)
    /\ nodes_run' = Append(nodes_run, "generate_response")
    /\ gpc' = "done"
    /\ UNCHANGED <<callVars, scanVars, monVars, svcVars, scriptVars, LANGGRAPH_AVAILABLE, memory_manager>>

NextGraph ==
    \/ Invoke
    \/ AnalyzeContext
    \/ RetrieveMemory
    \/ GenerateResponse
    \/ UpdateMemory
    \/ GraphReturn
    \/ Fallback

SpecGraph == InitGraph /\ [][NextGraph]_vars

(***************************************************************************)
(* SpecScripts: one run of a top-level script (analyze_and_support,        *)
(* start_monitoring, fetch_x_trends): the command line is parsed, the      *)
(* credentials are looked up, the work is done inside a try statement.     *)
(* args is "valid", "invalid" (argparse exits with status 2), "help"       *)
(* (argparse prints and exits with status 0) or "token" (fetch_x_trends    *)
(* with a --token option).                                                 *)
(***************************************************************************)
Scripts == {"analyze_and_support", "start_monitoring", "fetch_x_trends"}
EnvValues == {None, "", "secret"}

CommandLines(sc) ==
    CASE sc = "analyze_and_support" -> {"valid", "invalid", "help"}
      [] sc = "start_monitoring" -> {"valid"}
      [] sc = "fetch_x_trends" -> {"valid", "invalid", "help", "token"}

\* how the work of the script can end: scan_and_analyze, monitor_and_call,
\* fetch_trends_by_woeid with print_trends.  monitor_and_call returns only
\* after it caught a KeyboardInterrupt ("stopped").
WorkOutcomes(sc) ==
    CASE sc = "analyze_and_support" -> {"returned", "KeyboardInterrupt", "Exception"}
      [] sc = "start_monitoring" -> {"stopped", "KeyboardInterrupt", "Exception"}
      [] sc = "fetch_x_trends" ->
            {"returned", "RequestException", "KeyboardInterrupt", "Exception"}

\* not value
FalsyEnv(value) == value = None \/ value = ""

\* analyze_and_support lines 560-570, start_monitoring lines 23-32,
\* fetch_x_trends lines 162-167: whether main gets past the credentials
HasCredentials(sc, cl, e) ==
    IF sc = "fetch_x_trends"
    THEN cl = "token" \/ ~FalsyEnv(e.X_API_BEARER_TOKEN)
    ELSE ~FalsyEnv(e.X_API_BEARER_TOKEN) /\ ~FalsyEnv(e.GROK_API_KEY)

\* faulty variant: start_monitoring treats the interrupt as the other
\* scripts do
ExitAfterWork_InterruptFails(sc, outcome) ==
    IF outcome \in {"returned", "stopped"} THEN 0 ELSE 1

\* analyze_and_support lines 575-591, start_monitoring lines 43-58,
\* fetch_x_trends lines 169-188: the exit status after the try statement
ExitAfterWork(sc, outcome) ==
    CASE outcome \in {"returned", "stopped"} -> 0
      [] outcome = "KeyboardInterrupt" -> IF sc = "start_monitoring" THEN 0 ELSE 1
      [] OTHER -> 1

InitScripts ==
    /\ CallIdle
    /\ ScanIdle
    /\ MonIdle
    /\ GraphIdle
    /\ SvcIdle
    /\ script \in Scripts
    /\ args \in CommandLines(script)
    /\ \E t \in EnvValues, k \in EnvValues :
          /\ script = "fetch_x_trends" => k = None
          /\ env = [X_API_BEARER_TOKEN |-> t, GROK_API_KEY |-> k]
    /\ spc = IF script = "start_monitoring" THEN "credentials" ELSE "parse"
    /\ cause = "none"
    /\ exit_status = None

\* analyze_and_support line 557, fetch_x_trends line 159: parser.parse_args()
ParseArgs ==
    /\ spc = "parse"
    /\ IF args = "invalid" THEN spc' = "exited" /\ exit_status' = 2
       ELSE IF args = "help" THEN spc' = "exited" /\ exit_status' = 0
       ELSE spc' = "credentials" /\ exit_status' = exit_status
    /\ UNCHANGED <<callVars, scanVars, monVars, graphVars, svcVars, script, args,
                   env, cause>>

CheckCredentials ==
    /\ spc = "credentials"
    /\ IF HasCredentials(script, args, env)
       THEN spc' = "work" /\ exit_status' = exit_status
       ELSE spc' = "exited" /\ exit_status' = 1
    /\ UNCHANGED <<callVars, scanVars, monVars, graphVars, svcVars, script, args,
                   env, cause>>

\* the try statement: the work and the handlers of what it raises
Work ==
    /\ spc = "work"
    /\ \E outcome \in WorkOutcomes(script) :
          /\ cause' = CASE outcome = "returned" -> "none"
                        [] outcome \in {"stopped", "KeyboardInterrupt"} ->
                              "KeyboardInterrupt"
                        [] OTHER -> "Exception"
          /\ exit_status' = ExitAfterWork(script, outcome)
    /\ spc' = "exited"
    /\ UNCHANGED <<callVars, scanVars, monVars, graphVars, svcVars, script, args, env>>

NextScripts == ParseArgs \/ CheckCredentials \/ Work

SpecScripts == InitScripts /\ [][NextScripts]_vars

(***************************************************************************)
(* SpecConversations: the backend serving call-initiate and                *)
(* message-append requests, one at a time (each handler runs to its first  *)
(* await before another starts, and all its writes come before), while     *)
(* the clock of the host goes on.                                          *)
(***************************************************************************)
Seconds == {0, 1, 2}
UsernameOf == [u \in {"a1", "a2"} |-> IF u = "a1" THEN "u1" ELSE "u2"]

\* a context with the chat-completion response its greeting meets
GreetingCases ==
    {[context |-> NoneDict, resp |-> OkContent(<<"m", "w">>)],
     [context |-> [original_post |-> "text1"], resp |-> [status |-> "http_error"]],
     [context |-> [sentiment_analysis |-> None], resp |-> OkContent(<<"m", "w">>)]}

ConversationMessages ==
    {[role |-> "user", content |-> <<"n">>, timestamp |-> "t"],
     [role |-> "user", content |-> LongMessage, timestamp |-> "t"]}

UnknownId == ConversationId("a3", 0)

InitConversations ==
    /\ CallIdle
    /\ ScanIdle
    /\ MonIdle
    /\ gpc = "idle"
    /\ LANGGRAPH_AVAILABLE \in BOOLEAN
    /\ state = NoState
    /\ nodes_run = <<>>
    /\ memory_manager \in {[NoMemories EXCEPT !.mem0 = m] : m \in {"absent", "failing"}}
    /\ result = Pending
    /\ SvcIdle
    /\ ScriptIdle

\* the clock passes to the next second
Tick ==
    /\ wall + 1 \in Seconds
    /\ wall' = wall + 1
    /\ UNCHANGED <<callVars, scanVars, monVars, graphVars, scriptVars,
                   active_conversations, served, report_files>>

\* POST /api/calls/initiate
InitiateCall ==
    /\ Len(served) < MaxRequests
    /\ \E u \in {"a1", "a2"}, g \in GreetingCases :
        LET request == [user_id |-> u, username |-> UsernameOf[u],
                        phone_number |-> "555", context |-> g.context]
            r == initiate_call(active_conversations, memory_manager, request,
                               wall, g.resp, <<>>)
        IN  /\ active_conversations' = r.active
            /\ served' = Append(served, [op |-> "initiate_call",
                                         request |-> request,
                                         response |-> r.response])
    /\ UNCHANGED <<callVars, scanVars, monVars, graphVars, scriptVars, wall,
                   report_files>>

\* POST /api/conversations/{conversation_id}/message
AddMessage ==
    /\ Len(served) < MaxRequests
    /\ \E id \in DOMAIN active_conversations \cup {UnknownId},
          message \in ConversationMessages :
        LET r == add_message(active_conversations, memory_manager, id, message, wall)
        IN  /\ active_conversations' = r.active
            /\ memory_manager' = r.mm
            /\ served' = Append(served, [op |-> "add_message",
                                         conversation_id |-> id,
                                         message |-> message,
                                         response |-> r.response])
    /\ UNCHANGED <<callVars, scanVars, monVars, scriptVars, wall, report_files,
                   gpc, LANGGRAPH_AVAILABLE, state, nodes_run, result>>

NextConversations == Tick \/ InitiateCall \/ AddMessage

SpecConversations == InitConversations /\ [][NextConversations]_vars

(***************************************************************************)
(* SpecBackend: the backend serving call-initiate, message-append and      *)
(* response-generate requests and the streaming channel, for conversations *)
(* that are known and for one that is not.                                 *)
(***************************************************************************)
ChannelData ==
    {[type |-> "user_message", content |-> LongMessage],
     [type |-> "ping", content |-> <<>>]}

\* The channels of a conversation that are open: accepted and not closed
\* since
OpenChannel(id) ==
    \E i \in 1..Len(served) :
        /\ served[i].op = "websocket_conversation"
        /\ served[i].conversation_id = id
        /\ ~served[i].response.closed
        /\ \A j \in (i + 1)..Len(served) :
              served[j].op = "websocket_receive" /\ served[j].conversation_id = id
                  => ~served[j].response.closed

\* POST /api/conversations/{conversation_id}/generate-response
GenerateResponseRequest ==
    /\ Len(served) < MaxRequests
    /\ \E id \in DOMAIN active_conversations \cup {UnknownId},
          resp \in {[status |-> "http_error"], OkContent(<<"w", "m", "w">>)} :
        LET r == generate_response(active_conversations, memory_manager,
                                   LANGGRAPH_AVAILABLE, id, LongMessage, <<>>,
                                   resp, <<>>, wall)
        IN  /\ active_conversations' = r.active
            /\ memory_manager' = r.mm
            /\ served' = Append(served, [op |-> "generate_response",
                                         conversation_id |-> id,
                                         response |-> r.response])
    /\ UNCHANGED <<callVars, scanVars, monVars, scriptVars, wall, report_files,
                   gpc, LANGGRAPH_AVAILABLE, state, nodes_run, result>>

\* a client connects to /ws/conversation/{conversation_id}
WebSocketConnect ==
    /\ Len(served) < MaxRequests
    /\ \E id \in DOMAIN active_conversations \cup {UnknownId} :
          served' = Append(served,
                           [op |-> "websocket_conversation",
                            conversation_id |-> id,
                            response |-> websocket_conversation(active_conversations,
                                                                id)])
    /\ UNCHANGED <<callVars, scanVars, monVars, graphVars, scriptVars,
                   active_conversations, wall, report_files>>

\* a client sends a text on an open channel
WebSocketReceive ==
    /\ Len(served) < MaxRequests
    /\ \E id \in DOMAIN active_conversations, message_data \in ChannelData :
        /\ OpenChannel(id)
        /\ LET r == websocket_receive(active_conversations, memory_manager,
                                      LANGGRAPH_AVAILABLE, id, message_data, <<>>,
                                      OkContent(<<"w", "m", "w">>), <<>>, wall)
           IN  /\ active_conversations' = r.active
               /\ memory_manager' = r.mm
               /\ served' = Append(served, [op |-> "websocket_receive",
                                            conversation_id |-> id,
                                            response |-> r.response])
    /\ UNCHANGED <<callVars, scanVars, monVars, scriptVars, wall, report_files,
                   gpc, LANGGRAPH_AVAILABLE, state, nodes_run, result>>

NextBackend ==
    \/ Tick
    \/ InitiateCall
    \/ AddMessage
    \/ GenerateResponseRequest
    \/ WebSocketConnect
    \/ WebSocketReceive

SpecBackend == InitConversations /\ [][NextBackend]_vars

(***************************************************************************)
(* SpecReports: the backend serving the users-needing-support listing      *)
(* while runs of scan_and_analyze save reports in its directory.  A file   *)
(* is [name, mtime, data]; a run names its report after the second its     *)
(* second loop starts in and writes it when the loop is over.              *)
(***************************************************************************)
Record1 == [username |-> "u1", user_id |-> "a1"]
Record2 == [username |-> "u2", user_id |-> "a2"]
\* what a report file holds: a report of scan_and_analyze with one or two
\* records, or a JSON object without results
ReportData ==
    {[scan_timestamp |-> 1, query |-> <<"x">>, total_posts_scanned |-> 2,
      negative_posts_found |-> 1, results |-> <<Record1>>],
     [scan_timestamp |-> 2, query |-> <<"x">>, total_posts_scanned |-> 2,
      negative_posts_found |-> 2, results |-> <<Record1, Record2>>],
     [query |-> <<"x">>]}

NoFile == [name |-> <<>>, mtime |-> 0, data |-> EmptyDict]

InitReports ==
    /\ CallIdle
    /\ ScanIdle
    /\ MonIdle
    /\ GraphIdle
    /\ SvcIdle
    /\ ScriptIdle

\* analyze_and_support.py lines 437, 495-503: a run saves its report
SaveReport ==
    /\ \E named \in {t \in Seconds : t <= wall}, data \in ReportData :
        LET results_file == <<"support_outreach_", named>>
        IN  report_files' =
                {f \in report_files : f.name # results_file}
                    \cup {[name |-> results_file, mtime |-> wall, data |-> data]}
    /\ UNCHANGED <<callVars, scanVars, monVars, graphVars, scriptVars,
                   active_conversations, wall, served>>

\* GET /api/users/needing-support
GetUsersNeedingSupport ==
    /\ Len(served) < MaxRequests
    /\ \E first \in IF report_files = {} THEN {NoFile} ELSE FirstSorted(report_files) :
          served' = Append(served,
                           [op |-> "get_users_needing_support",
                            response |-> get_users_needing_support(report_files,
                                                                   first)])
    /\ UNCHANGED <<callVars, scanVars, monVars, graphVars, scriptVars,
                   active_conversations, wall, report_files>>

NextReports == Tick \/ SaveReport \/ GetUsersNeedingSupport

SpecReports == InitReports /\ [][NextReports]_vars

(***************************************************************************)
(* SpecTracker: a fresh ResponseTracker and the calls a client makes on    *)
(* it, in any order, while the clock runs.  calls is the history of the    *)
(* calls: what each was given, what it sent to the backend and what it     *)
(* returned.                                                               *)
(***************************************************************************)
TrackerUsers == {"a1", "a2"}
Replies == {<<"yes">>, <<"no">>}
\* what the call-initiate request meets
BackendResps ==
    {[status |-> "http_error"], [status |-> "conn_error"],
     OkBody([conversation_id |-> "conv", initial_message |-> <<"m">>])}
NotSent == [status |-> "not sent"]

InitTracker ==
    /\ CallIdle
    /\ ScanIdle
    /\ MonIdle
    /\ GraphIdle
    /\ SvcIdle
    /\ ScriptIdle

\* time passes between two calls
TickClock ==
    /\ clock + 1 \in Seconds
    /\ clock' = clock + 1
    /\ UNCHANGED <<callVars, scanVars, graphVars, svcVars, scriptVars, mpc,
                   tracking_data, tracking_file, check_interval, iteration,
                   calls, mexc>>

RecordOfferSent ==
    /\ Len(calls) < MaxRequests
    /\ \E user_id \in TrackerUsers :
        /\ tracking_data' = record_offer_sent(tracking_data, user_id,
                                              UsernameOf[user_id], "1", "r1", clock)
        /\ tracking_file' = record_offer_sent_file(tracking_file, tracking_data,
                                                   user_id, UsernameOf[user_id],
                                                   "1", "r1", clock)
        /\ calls' = Append(calls, [op |-> "record_offer_sent",
                                   user_id |-> user_id, tweet_id |-> "1"])
    /\ UNCHANGED <<callVars, scanVars, graphVars, svcVars, scriptVars, mpc,
                   check_interval, iteration, clock, mexc>>

MarkOfferResponded ==
    /\ Len(calls) < MaxRequests
    /\ \E user_id \in TrackerUsers, response \in Replies :
        LET wants_to_talk == response = <<"yes">>
        IN  /\ tracking_data' = mark_offer_responded(tracking_data, user_id, "1",
                                                     response, wants_to_talk, clock)
            /\ tracking_file' = mark_offer_responded_file(tracking_file,
                                    tracking_data, user_id, "1", response,
                                    wants_to_talk, clock)
            /\ calls' = Append(calls, [op |-> "mark_offer_responded",
                                       user_id |-> user_id, tweet_id |-> "1",
                                       response |-> response])
    /\ UNCHANGED <<callVars, scanVars, graphVars, svcVars, scriptVars, mpc,
                   check_interval, iteration, clock, mexc>>

InitiateCallForUser ==
    /\ Len(calls) < MaxRequests
    /\ \E user_id \in TrackerUsers, phone_number \in Phones, resp \in BackendResps :
        LET username == UsernameOf[user_id]
            requests == initiate_call_for_user_requests(user_id, username,
                                                        phone_number)
            call == initiate_call_for_user(tracking_data, user_id, username,
                                           phone_number, resp, clock)
        IN  /\ tracking_data' = call.tracking
            /\ tracking_file' = initiate_call_for_user_file(tracking_file,
                                    tracking_data, user_id, username,
                                    phone_number, resp, clock)
            /\ calls' = Append(calls,
                               [op           |-> "initiate_call_for_user",
                                user_id      |-> user_id,
                                phone_number |-> phone_number,
                                requests     |-> requests,
                                response     |-> IF requests = <<>> THEN NotSent
                                                 ELSE resp,
                                returned     |-> call.value])
    /\ UNCHANGED <<callVars, scanVars, graphVars, svcVars, scriptVars, mpc,
                   check_interval, iteration, clock, mexc>>

NextTracker ==
    TickClock \/ RecordOfferSent \/ MarkOfferResponded \/ InitiateCallForUser

SpecTracker == InitTracker /\ [][NextTracker]_vars

(***************************************************************************)
(* Properties of single calls (SpecCalls).                                 *)
(***************************************************************************)
Called(fn) == req.fn = fn /\ ret # Pending

HttpFns ==
    {"search_posts", "get_user_info", "analyze_sentiment",
     "generate_support_message", "fetch_trends_by_woeid", "initiate_call_for_user"}

\* The call met an HTTP failure
CallFailed == req.fn \in HttpFns /\ ret # Pending /\ Failed(req.resp)

\* The call gave back the empty / neutral default of its function
GaveDefault ==
    /\ ~ret.raised
    /\ CASE req.fn = "search_posts" -> ret.value = <<>>
         [] req.fn = "get_user_info" -> ret.value = NoneDict
         [] req.fn = "analyze_sentiment" -> ret.value = ErrorVerdict
         [] req.fn = "generate_support_message" ->
                ret.value = FailureMessage(req.username)
         [] req.fn = "initiate_call_for_user" -> ret.value = NoneDict
         [] OTHER -> FALSE

\* C3 as stated: every function that makes an outbound HTTP call gives an
\* empty / neutral default back when the call fails, and never raises.
C3_AllReturnDefault == CallFailed => GaveDefault

\* C3 amended: search_posts, get_user_info, analyze_sentiment,
\* generate_support_message and initiate_call_for_user give their default
\* back when the HTTP call fails and do not raise; fetch_trends_by_woeid
\* raises the request exception again.
C3_DefaultOrReraise ==
    CallFailed =>
        IF req.fn = "fetch_trends_by_woeid" THEN ret.raised ELSE GaveDefault

C3_Witness ==
    /\ Called("search_posts") /\ req.resp.status = "conn_error"
    /\ ~ret.raised /\ ret.value = <<>>

\* The text between the fence markers at a and b, without the word json
\* of a ```json opening
Fenced(content, a, b) ==
    LET inner == SubSeq(content, a + 1, b - 1)
    IN  IF inner # <<>> /\ Head(inner) = "j" THEN Tail(inner) ELSE inner

\* The content wraps a valid JSON object in a fenced code block from a to b:
\* an opening fence at a (an even number of fence markers before it), a
\* closing fence at b, and between them, but for white space, one JSON
\* object.
WrapsObject(content, a, b) ==
    /\ a < b
    /\ content[a] = "F" /\ content[b] = "F"
    /\ Cardinality({k \in 1..(a - 1) : content[k] = "F"}) % 2 = 0
    /\ JsonValid(Fenced(content, a, b))

\* C4 as stated: when the response content wraps a valid JSON object in a
\* fenced code block, analyze_sentiment returns exactly that object,
\* whatever text precedes or follows the fence.
C4_FencedObjectReturned ==
    (Called("analyze_sentiment") /\ ~Failed(req.resp)) =>
        \A a, b \in 1..Len(req.resp.content) :
            WrapsObject(req.resp.content, a, b) =>
                /\ ~ret.raised
                /\ ret.value = JsonLoads(Fenced(req.resp.content, a, b))

\* C5 as stated: when the response content cannot be parsed as JSON (the
\* fallback is taken), the verdict is the heuristic one computed from the
\* response content: is_negative iff it holds "negative" or "true" in any
\* case, sentiment "negative" iff it holds "negative" and "neutral"
\* otherwise, severity "medium", no concerns, needs_support true.
C5_HeuristicOnResponse ==
    (Called("analyze_sentiment") /\ SentimentPath(req.resp) = "fallback") =>
        LET c == req.resp.content
            neg == \E i \in 1..Len(c) : c[i] \in {"n", "N", "Ott", "Otf", "Oft", "{"}
            tru == \E i \in 1..Len(c) : c[i] \in {"t", "T", "Ott", "Otf", "Oft"}
        IN  /\ ~ret.raised
            /\ ret.value.is_negative = (neg \/ tru)
            /\ ret.value.sentiment = IF neg THEN "negative" ELSE "neutral"
            /\ ret.value.severity = "medium"
            /\ ret.value.concerns = <<>>
            /\ ret.value.needs_support = TRUE

\* C6: with no query (empty or white space only) the query sent is the
\* literal "lang:en -is:retweet"; any other query is sent unchanged.
C6_DefaultQuery ==
    Called("search_posts") =>
        ret.params.query =
            IF \A i \in 1..Len(req.query) : req.query[i] = "w"
            THEN <<"lang:en -is:retweet">> ELSE req.query

C6_Witness ==
    /\ Called("search_posts") /\ req.query = <<"w", "w">>
    /\ ret.params.query = <<"lang:en -is:retweet">>

\* C7: the max_results sent lies in [10, 100]: the input when it is in
\* range, 10 when it is below, 100 when it is above.
C7_Clamp ==
    Called("search_posts") =>
        /\ ret.params.max_results \in 10..100
        /\ req.max_results \in 10..100 => ret.params.max_results = req.max_results
        /\ req.max_results < 10 => ret.params.max_results = 10
        /\ req.max_results > 100 => ret.params.max_results = 100

C7_Witness ==
    /\ Called("search_posts") /\ req.max_results < 0
    /\ ret.params.max_results = 10

\* The text holds the query as a substring, letter case apart
HoldsIgnoringCase(text, q) ==
    \E o \in 0..(Len(text) - Len(q)) :
        \A j \in 1..Len(q) : LowerSym(text[o + j]) = LowerSym(q[j])

IsAnalyze(e) == e.op = "analyze_sentiment"

\* The verdict of a classifier call has both flags true
BothFlagsTrue(e) ==
    /\ "is_negative" \in DOMAIN e.out /\ e.out.is_negative = TRUE
    /\ "needs_support" \in DOMAIN e.out /\ e.out.needs_support = TRUE

\* The classifier calls made so far, and those whose verdict passes
Judged == SelectSeq(log, IsAnalyze)
Passing == SelectSeq(Judged, BothFlagsTrue)

\* The number of calls of op for the i-th element of its loop
Count(op, i) == Cardinality({j \in 1..Len(log) : log[j].op = op /\ log[j].i = i})
Total(op) == Cardinality({j \in 1..Len(log) : log[j].op = op})
EntryOf(op, i) == log[CHOOSE j \in 1..Len(log) : log[j].op = op /\ log[j].i = i]

LoopOneOver == pc \in {"process", "save", "done"} /\ posts # <<>>

\* C1: a fetched post is kept iff its verdict has is_negative and
\* needs_support both true: the kept posts are exactly, and in order, the
\* judged posts whose verdict has both flags true, and once the first loop
\* is over every fetched post has been judged.
C1_KeptIffBothFlags ==
    /\ negative_posts =
          [k \in 1..Len(Passing) |->
              [post |-> posts[Passing[k].i], analysis |-> Passing[k].out]]
    /\ LoopOneOver =>
          /\ Len(Judged) = Len(posts)
          /\ \A i \in 1..Len(posts) : Judged[i].i = i

C1_Witness ==
    /\ pc = "done" /\ Len(posts) = 2
    /\ Len(negative_posts) = 1 /\ negative_posts[1].post = posts[2]

\* What C2 says of a finished run: one search, the classifier called once
\* per fetched post, contact lookup and draft generator once per kept post,
\* and the record list returned.
C2_Counts ==
    pc = "done" =>
        /\ Total("search_posts") = 1
        /\ Total("analyze_sentiment") = Len(posts)
        /\ \A i \in 1..Len(posts) : Count("analyze_sentiment", i) = 1
        /\ Total("find_contact_info") = Len(negative_posts)
        /\ Total("generate_support_message") = Len(negative_posts)
        /\ \A k \in 1..Len(negative_posts) :
              /\ Count("find_contact_info", k) = 1
              /\ Count("generate_support_message", k) = 1
        /\ returned = results_data

\* C2: for any pattern of HTTP failures a run never aborts early and never
\* retries: it always reaches its end and returns the record list, having
\* called the classifier exactly once per fetched post and contact lookup
\* and the draft generator exactly once per kept post.
C2_NoAbortNoRetry == <>(pc = "done") /\ [](pc # "raised") /\ []C2_Counts

C2_Witness ==
    /\ pc = "done"
    /\ \E j \in 1..Len(log) : log[j].op = "analyze_sentiment" /\ Failed(log[j].resp)
    /\ \E j \in 1..Len(log) : log[j].op = "find_contact_info" /\ Failed(log[j].resp)
    /\ \E j \in 1..Len(log) :
          log[j].op = "generate_support_message" /\ Failed(log[j].resp)

\* The positions of the fetched posts that pass the filter, in increasing
\* order
RECURSIVE PassingFrom(_)
PassingFrom(i) ==
    IF i > Len(posts) THEN <<>>
    ELSE (IF BothFlagsTrue(EntryOf("analyze_sentiment", i)) THEN <<i>> ELSE <<>>)
            \o PassingFrom(i + 1)

\* C8: posts are processed in the order returned by the search, with no
\* re-ordering and no deduplication: the returned records are those of the
\* fetched posts that pass the filter, one record per occurrence, in the
\* order of the fetched list.
C8_OrderNoDedup ==
    (pc = "done" /\ posts # <<>>) =>
        LET pass == PassingFrom(1)
        IN  /\ Len(returned) = Len(pass)
            /\ \A k \in 1..Len(pass) :
                  /\ returned[k].original_post = posts[pass[k]].text
                  /\ returned[k].user_id = posts[pass[k]].author_id
                  /\ returned[k].sentiment_analysis =
                        EntryOf("analyze_sentiment", pass[k]).out

C8_Witness ==
    /\ pc = "done" /\ Len(posts) = 2 /\ posts[1] = posts[2]
    /\ Len(returned) = 2 /\ returned[1].original_post = returned[2].original_post

\* C9 as stated: every run writes exactly one report file, and it holds
\* every record drafted in the run.
C9_OneReportPerRun ==
    pc = "done" => Len(files) = 1 /\ files[1].results = results_data

\* C9 amended: a run writes at most one report file.  A run that kept at
\* least one post writes exactly one, holding every record drafted in the
\* run (one per kept post, each with its message and contact info); a run
\* that fetched no post or kept none writes no file.
C9_OneReportWhenKept ==
    /\ Len(files) <= 1
    /\ pc = "done" =>
          IF negative_posts # <<>>
          THEN /\ Len(files) = 1
               /\ files[1].results = results_data
               /\ Len(results_data) = Len(negative_posts)
               /\ \A k \in 1..Len(results_data) :
                     /\ results_data[k].original_post = negative_posts[k].post.text
                     /\ results_data[k].support_message =
                           EntryOf("generate_support_message", k).out
                     /\ results_data[k].contact_info =
                           EntryOf("find_contact_info", k).out
          ELSE files = <<>>

C9_Witness == pc = "done" /\ Len(files) = 1 /\ Len(files[1].results) = 2

\* The records a run must produce, from the responses alone: neither
\* dry_run nor any delivery enters
ExpectedRecords ==
    [k \in 1..Len(Passing) |->
        LET post == posts[Passing[k].i]
            c == EntryOf("find_contact_info", k).out
        IN  [username           |-> IF "username" \in DOMAIN c THEN c.username ELSE None,
             user_id            |-> post.author_id,
             profile_url        |-> IF "profile_url" \in DOMAIN c
                                    THEN c.profile_url ELSE <<>>,
             original_post      |-> post.text,
             post_url           |-> IF post.id = None THEN <<>>
                                    ELSE <<"https://twitter.com/",
                                           IF "username" \in DOMAIN c
                                           THEN c.username ELSE None,
                                           "/status/", post.id>>,
             sentiment_analysis |-> Passing[k].out,
             support_message    |-> EntryOf("generate_support_message", k).out,
             contact_info       |-> c,
             timestamp          |-> Len(posts) * 1 + (k - 1) * 2]]

\* C10: nothing is ever sent: no run calls message delivery, whatever
\* dry_run is; send_direct_message always returns False; the records
\* returned and persisted depend on the responses only, not on dry_run.
C10_NothingSent ==
    /\ \A j \in 1..Len(log) : log[j].op # "send_direct_message"
    /\ \A m \in MessageContents : send_direct_message("a1", m) = Return(FALSE)
    /\ pc = "done" =>
          /\ returned = ExpectedRecords
          /\ \A f \in 1..Len(files) : files[f].results = ExpectedRecords

C10_Witness ==
    /\ pc = "done" /\ ~dry_run /\ Len(returned) = 2 /\ Len(files) = 1

\* The classifier calls whose HTTP request went through and whose verdict
\* passes the filter
PassedOk(e) == BothFlagsTrue(e) /\ ~Failed(e.resp)
PassingOk == SelectSeq(Judged, PassedOk)

\* C18: a classifier call whose HTTP request failed gives a verdict with
\* is_negative and needs_support false, and its post is never kept: the kept
\* posts, the contact lookups, the drafts and the records all belong to
\* posts whose classifier call went through.
C18_FailedNeverKept ==
    /\ \A j \in 1..Len(Judged) :
          Failed(Judged[j].resp) =>
              /\ Judged[j].out.is_negative = FALSE
              /\ Judged[j].out.needs_support = FALSE
    /\ Len(negative_posts) = Len(PassingOk)
    /\ \A k \in 1..Len(negative_posts) :
          negative_posts[k].post = posts[PassingOk[k].i]
    /\ Len(results_data) <= Len(PassingOk)
    /\ \A k \in 1..Len(results_data) :
          results_data[k].original_post = posts[PassingOk[k].i].text
    /\ \A j \in 1..Len(log) :
          log[j].op \in {"find_contact_info", "generate_support_message"} =>
              log[j].i \in 1..Len(PassingOk)

C18_Witness ==
    /\ pc = "done" /\ Len(posts) = 2
    /\ Failed(EntryOf("analyze_sentiment", 1).resp)
    /\ Len(returned) = 1 /\ returned[1].original_post = posts[2].text
    /\ Total("find_contact_info") = 1 /\ Total("generate_support_message") = 1

\* C19: when the contact lookup of a kept post fails, find_contact_info
\* gives the empty mapping and the post still gets its draft and its
\* record, with no username and no profile_url, and user_id and
\* original_post from the post; after the second loop there is one record
\* per kept post.
C19_RecordWithoutContact ==
    /\ \A k \in 1..Len(results_data) :
          Failed(EntryOf("find_contact_info", k).resp) =>
              /\ EntryOf("find_contact_info", k).out = EmptyDict
              /\ Count("generate_support_message", k) = 1
              /\ results_data[k].support_message =
                    EntryOf("generate_support_message", k).out
              /\ results_data[k].contact_info = EmptyDict
              /\ results_data[k].username = None
              /\ results_data[k].profile_url = <<>>
              /\ results_data[k].user_id = negative_posts[k].post.author_id
              /\ results_data[k].original_post = negative_posts[k].post.text
    /\ \A j \in 1..Len(log) :
          (log[j].op = "find_contact_info" /\ Failed(log[j].resp)) =>
              /\ log[j].out = EmptyDict
              /\ log[j].i \in 1..Len(results_data)
    /\ pc \in {"save", "done"} => Len(results_data) = Len(negative_posts)

C19_Witness ==
    /\ pc = "done" /\ Len(negative_posts) = 2 /\ Len(returned) = 2
    /\ Failed(EntryOf("find_contact_info", 1).resp)
    /\ ~Failed(EntryOf("find_contact_info", 2).resp)
    /\ returned[1].username = None /\ returned[1].user_id = "a1"
    /\ returned[2].username # None

\* C20: in every report written, negative_posts_found is the length of
\* results, total_posts_scanned is the number of posts the search returned,
\* and negative_posts_found is at most total_posts_scanned.
C20_ReportCounts ==
    \A f \in 1..Len(files) :
        /\ files[f].negative_posts_found = Len(files[f].results)
        /\ files[f].total_posts_scanned = Len(EntryOf("search_posts", 0).out)
        /\ files[f].negative_posts_found <= files[f].total_posts_scanned

C20_Witness ==
    /\ Len(files) = 1
    /\ files[1].total_posts_scanned = 2 /\ files[1].negative_posts_found = 1

(***************************************************************************)
(* Properties of monitor_and_call (SpecMonitor).                           *)
(***************************************************************************)
IsTrackerCall(e) == e.op \in {"mark_offer_responded", "initiate_call_for_user"}

\* C11: check_user_responses always gives the empty list, so no step of
\* monitor_and_call, in whatever iteration, changes the tracking data (no
\* offer's status, no call entry) or makes a tracker call: the tracking
\* data stays what it was when monitoring started.
C11_TrackingUntouched ==
    [][/\ check_user_responses = <<>>
       /\ tracking_data' = tracking_data
       /\ SelectSeq(calls', IsTrackerCall) = <<>>]_vars

C11_Witness ==
    /\ iteration = MaxIterations /\ mpc = "sleep"
    /\ \E key \in DOMAIN tracking_data.offers_sent :
          tracking_data.offers_sent[key].status = "pending"
    /\ tracking_data.calls_initiated # EmptyDict

\* C15 as stated: an exception other than KeyboardInterrupt raised inside
\* an iteration is caught and the loop goes on; monitor_and_call ends only
\* as a result of a KeyboardInterrupt.
C15_OnlyInterruptEnds ==
    mpc \in {"returned", "raised"} => mexc = "KeyboardInterrupt"

(***************************************************************************)
(* Properties of ConversationGraph.generate_response (SpecGraph).          *)
(***************************************************************************)
FourSteps ==
    <<"analyze_context", "retrieve_memory", "generate_response", "update_memory">>

\* The nodes run so far are the first ones of steps, and all of them once
\* the call has returned
RunsExactly(steps) ==
    /\ \E k \in 0..Len(steps) : nodes_run = SubSeq(steps, 1, k)
    /\ gpc = "done" => nodes_run = steps

\* C12 as stated: with the graph library or without it, a call of
\* generate_response runs context analysis, memory retrieval, response
\* drafting and memory write, in this order, each exactly once.
C12_FourStepsAlways == RunsExactly(FourSteps)

\* C12 amended: with the graph library a call runs context analysis,
\* memory retrieval, response drafting and memory write, in this order,
\* each exactly once; without it the call runs the response drafting step
\* alone, once: no memory is retrieved and none is written.
C12_FourStepsWithGraph ==
    IF LANGGRAPH_AVAILABLE
    THEN RunsExactly(FourSteps)
    ELSE /\ RunsExactly(<<"generate_response">>)
         /\ state.relevant_memories = <<>>
         /\ state.updated_memory = EmptyDict
         /\ \A u \in DOMAIN memory_manager.memory_files :
               \A i \in 1..Len(memory_manager.memory_files[u]) :
                   memory_manager.memory_files[u][i].timestamp = 1

C12_Witness ==
    /\ gpc = "done" /\ LANGGRAPH_AVAILABLE /\ nodes_run = FourSteps
    /\ state.user_message = LongMessage
    /\ "a1" \in DOMAIN memory_manager.memory_files
    /\ Len(memory_manager.memory_files["a1"]) = 2
    /\ result.content = <<"m">>

(***************************************************************************)
(* Properties of the top-level scripts (SpecScripts).                      *)
(***************************************************************************)
\* C16 as stated: a script exits with a nonzero status only on an exception
\* or an interrupt: every interrupt and every exception gives a nonzero
\* status, every other end gives status 0.
C16_NonzeroIffExceptionOrInterrupt ==
    spc = "exited" =>
        (exit_status # 0 <=> cause \in {"KeyboardInterrupt", "Exception"})

\* a credential the script needs is missing
CredentialMissing ==
    IF script = "fetch_x_trends"
    THEN args # "token" /\ env.X_API_BEARER_TOKEN \in {None, ""}
    ELSE env.X_API_BEARER_TOKEN \in {None, ""} \/ env.GROK_API_KEY \in {None, ""}

\* C16 amended: a script exits with status 2 on a command line it cannot
\* parse and 0 on --help; with status 1 when a credential it needs is
\* missing; with status 1 on an exception raised by its work; on an
\* interrupt with status 1 in analyze_and_support and fetch_x_trends and
\* with status 0 in start_monitoring; and with status 0 when its work
\* returns.
C16_ExitStatusTable ==
    spc = "exited" =>
        exit_status =
            CASE args = "invalid" -> 2
              [] args = "help" -> 0
              [] CredentialMissing -> 1
              [] cause = "Exception" -> 1
              [] cause = "KeyboardInterrupt" ->
                    IF script = "start_monitoring" THEN 0 ELSE 1
              [] OTHER -> 0

C16_Witness ==
    /\ spc = "exited" /\ script = "start_monitoring"
    /\ cause = "KeyboardInterrupt" /\ exit_status = 0

(***************************************************************************)
(* Properties of the backend's conversations (SpecConversations).          *)
(***************************************************************************)
\* The writes to the entry of key id: the positions of the call-initiate
\* requests that generated this id
WritersOf(id) ==
    {j \in 1..Len(served) :
        served[j].op = "initiate_call" /\ served[j].response.conversation_id = id}

LastWriter(id) == CHOOSE j \in WritersOf(id) : \A k \in WritersOf(id) : k <= j

IsAppendTo(id, e) ==
    e.op = "add_message" /\ e.conversation_id = id /\ e.response.status_code = 200

\* The messages appended to key id by the requests after position j
RECURSIVE AppendedAfter(_, _)
AppendedAfter(id, j) ==
    IF j >= Len(served) THEN <<>>
    ELSE (IF IsAppendTo(id, served[j + 1]) THEN <<served[j + 1].message>> ELSE <<>>)
            \o AppendedAfter(id, j + 1)

\* C14: the mapping is last-writer-wins: its keys are the ids the
\* call-initiate requests generated, and the entry of a key is the one its
\* last writer made (its user, username, phone number, context, start
\* time), with the messages appended after that write only: a later
\* request with the same id (same user_id, same second) replaces the
\* entry, messages included.
C14_LastWriterWins ==
    /\ DOMAIN active_conversations =
          {served[j].response.conversation_id :
              j \in {k \in 1..Len(served) : served[k].op = "initiate_call"}}
    /\ \A id \in DOMAIN active_conversations :
          LET w == served[LastWriter(id)].request
              e == active_conversations[id]
          IN  /\ e.user_id = w.user_id
              /\ e.username = w.username
              /\ e.phone_number = w.phone_number
              /\ e.context = (IF w.context = NoneDict THEN EmptyDict ELSE w.context)
              /\ id = <<"conv_", w.user_id, "_", e.started_at>>
              /\ e.messages = AppendedAfter(id, LastWriter(id))

C14_Witness ==
    /\ Len(served) = 3
    /\ served[1].op = "initiate_call" /\ served[3].op = "initiate_call"
    /\ served[1].response.conversation_id = served[3].response.conversation_id
    /\ served[1].request.context # served[3].request.context
    /\ IsAppendTo(served[1].response.conversation_id, served[2])
    /\ Cardinality(DOMAIN active_conversations) = 1
    /\ active_conversations[served[3].response.conversation_id].messages = <<>>
    /\ active_conversations[served[3].response.conversation_id].context =
          [original_post |-> "text1"]

(***************************************************************************)
(* Properties of the users-needing-support listing (SpecReports).          *)
(***************************************************************************)
\* The step serves a users-needing-support request
Listed ==
    /\ Len(served') = Len(served) + 1
    /\ served'[Len(served')].op = "get_users_needing_support"

\* The report files modified last
MostRecent == {f \in report_files : \A g \in report_files : g.mtime <= f.mtime}

ResultsOf(f) == IF "results" \in DOMAIN f.data THEN f.data.results ELSE <<>>

IsOfferCall(e) == e.op \in {"record_offer_sent", "mark_offer_responded"}

\* The calls made on the offer of a key, in order
OfferCalls(key) ==
    SelectSeq(calls, LAMBDA e : IsOfferCall(e) /\ <<e.user_id, e.tweet_id>> = key)

LastOfferCall(key) == OfferCalls(key)[Len(OfferCalls(key))].op

\* C21: every stored offer is pending or responded; it is responded exactly
\* when the last call on its (user_id, tweet_id) key was
\* mark_offer_responded; and after a record_offer_sent on its key it is
\* pending and holds no response.
C21_StatusFollowsLastCall ==
    \A key \in DOMAIN tracking_data.offers_sent :
        LET offer == tracking_data.offers_sent[key]
        IN  /\ offer.status \in {"pending", "responded"}
            /\ OfferCalls(key) # <<>>
            /\ offer.status = "responded"
                  <=> LastOfferCall(key) = "mark_offer_responded"
            /\ LastOfferCall(key) = "record_offer_sent" =>
                  /\ offer.status = "pending"
                  /\ DOMAIN offer \cap {"response", "wants_to_talk",
                                        "response_timestamp"} = {}

\* An offer recorded, answered and recorded again
C21_Witness ==
    /\ <<"a1", "1">> \in DOMAIN tracking_data.offers_sent
    /\ tracking_data.offers_sent[<<"a1", "1">>].status = "pending"
    /\ Len(OfferCalls(<<"a1", "1">>)) = 3
    /\ OfferCalls(<<"a1", "1">>)[2].op = "mark_offer_responded"
    /\ LastOfferCall(<<"a1", "1">>) = "record_offer_sent"

\* The step is a call of the tracker method op
TrackerCall(op) ==
    /\ Len(calls') = Len(calls) + 1
    /\ calls'[Len(calls')].op = op

\* C22: mark_offer_responded for a pair with no recorded offer leaves the
\* tracking data as it was and saves nothing; for a recorded pair it
\* changes the entry of that offer and nothing else.
C22_MarkFrame ==
    [][TrackerCall("mark_offer_responded") =>
        LET call == calls'[Len(calls')]
            key == <<call.user_id, call.tweet_id>>
        IN  IF key \notin DOMAIN tracking_data.offers_sent
            THEN /\ tracking_data' = tracking_data
                 /\ tracking_file' = tracking_file
            ELSE /\ DOMAIN tracking_data'.offers_sent = DOMAIN tracking_data.offers_sent
                 /\ \A other \in DOMAIN tracking_data.offers_sent \ {key} :
                       tracking_data'.offers_sent[other] =
                           tracking_data.offers_sent[other]
                 /\ tracking_data'.offers_sent[key].status = "responded"
                 /\ tracking_data'.user_responses = tracking_data.user_responses
                 /\ tracking_data'.calls_initiated = tracking_data.calls_initiated]_vars

\* A reply to an offer never recorded, then one to the recorded offer
C22_Witness ==
    /\ Len(calls) = 3
    /\ calls[1].op = "record_offer_sent" /\ calls[1].user_id = "a2"
    /\ calls[2].op = "mark_offer_responded" /\ calls[2].user_id = "a1"
    /\ calls[3].op = "mark_offer_responded" /\ calls[3].user_id = "a2"
    /\ DOMAIN tracking_data.offers_sent = {<<"a2", "1">>}
    /\ tracking_data.offers_sent[<<"a2", "1">>].status = "responded"
    /\ tracking_file.writes = 2

\* C23: initiate_call_for_user without a phone number (None or empty)
\* returns None, sends nothing to the backend and leaves the tracking data
\* and its file as they were.
C23_NoPhoneNoCall ==
    [][TrackerCall("initiate_call_for_user") =>
        LET call == calls'[Len(calls')]
        IN  call.phone_number \in {None, ""} =>
                /\ call.returned = NoneDict
                /\ call.requests = <<>>
                /\ tracking_data' = tracking_data
                /\ tracking_file' = tracking_file]_vars

\* A call without a phone number on a tracker that holds a call initiated
C23_Witness ==
    /\ Len(calls) = 2
    /\ calls[1].op = "initiate_call_for_user" /\ calls[1].returned # NoneDict
    /\ calls[2].op = "initiate_call_for_user" /\ calls[2].phone_number = ""
    /\ calls[2].returned = NoneDict
    /\ Cardinality(DOMAIN tracking_data.calls_initiated) = 1
    /\ tracking_file.writes = 1

\* The call was answered with HTTP 200
Succeeded(e) == e.op = "initiate_call_for_user" /\ e.response.status = "ok"

\* C24: each initiate_call_for_user call answered with HTTP 200 adds one new
\* entry to calls_initiated, so that there are as many entries as calls
\* answered with 200, and returns what the backend gave; any other call
\* returns None and leaves calls_initiated as it was.
C24_EntryPerInitiation ==
    /\ Cardinality(DOMAIN tracking_data.calls_initiated)
          = Len(SelectSeq(calls, Succeeded))
    /\ \A i \in 1..Len(calls) :
          calls[i].op = "initiate_call_for_user" =>
              calls[i].returned = IF Succeeded(calls[i])
                                  THEN calls[i].response.body ELSE NoneDict

(***************************************************************************)
(* Properties of analyze_response_sentiment (SpecCalls).                   *)
(***************************************************************************)
\* The reply holds an indicator of the list, whatever the case of its letters
Holds(text, indicators) ==
    \E i \in 1..Len(text) :
        \/ text[i] \in {"yes", "YES"} /\ "yes" \in indicators
        \/ text[i] \in {"no", "NO", "know"} /\ "no" \in indicators

\* C25: a reply that holds a negative indicator is never classified as
\* wanting to talk unless the verdict's sentiment is 'positive'; and when
\* the LLM call raised or gave the error default, the result is the keyword
\* rule: some positive indicator and no negative indicator.
C25_NegativeBlocksKeywordFallback ==
    Called("analyze_response_sentiment") =>
        LET text == req.response_text
            analysis == req.analysis
            positive == /\ ~analysis.raised
                        /\ "sentiment" \in DOMAIN analysis.value
                        /\ analysis.value.sentiment = "positive"
        IN  /\ Holds(text, {"no"}) /\ ~positive => ret.value = FALSE
            /\ analysis.raised \/ analysis.value = ErrorVerdict =>
                  ret.value = (Holds(text, {"yes"}) /\ ~Holds(text, {"no"}))

\* A reply with a negative indicator inside a word, under a verdict that
\* support is needed, is not taken as wanting to talk
C25_Witness ==
    /\ Called("analyze_response_sentiment")
    /\ req.response_text = <<"YES", "know">>
    /\ ~req.analysis.raised
    /\ req.analysis.value = ObjectOf("Oft")
    /\ ret.value = FALSE

(***************************************************************************)
(* Properties of the for loop of monitor_and_call (SpecReplies).           *)
(***************************************************************************)
\* The step is a poll that returned
Polled == iteration' = iteration + 1 /\ mpc' = "sleep"

\* The calls the step made after the poll, and the positions among them of
\* the calls of method op for the k-th response
LoopCalls == SubSeq(calls', Len(calls) + 2, Len(calls'))
CallsFor(op, k) ==
    {j \in 1..Len(LoopCalls) : LoopCalls[j].op = op /\ LoopCalls[j].k = k}

ServesUnknown ==
    /\ Len(served') = Len(served) + 1
    /\ served'[Len(served')].op \in {"add_message", "generate_response",
                                     "websocket_conversation"}
    /\ served'[Len(served')].conversation_id \notin DOMAIN active_conversations

\* C27: a message-append or response-generate request for a conversation id
\* that is not in the mapping is answered with status 404, and a streaming
\* channel for it is closed; the mapping, with every conversation's
\* messages, and the stored memory stay as they were.
C27_UnknownRejected ==
    [][ServesUnknown =>
        LET request == served'[Len(served')]
        IN  /\ IF request.op = "websocket_conversation"
               THEN request.response.closed
               ELSE request.response.status_code = 404
            /\ active_conversations' = active_conversations
            /\ memory_manager' = memory_manager]_vars

\* With a conversation started, a response-generate request and a channel
\* for another id are turned down
C27_Witness ==
    /\ Len(served) = 3
    /\ served[1].op = "initiate_call" /\ served[1].response.status_code = 200
    /\ served[2].op = "generate_response" /\ served[2].conversation_id = UnknownId
    /\ served[2].response.status_code = 404
    /\ served[3].op = "websocket_conversation"
    /\ served[3].conversation_id = UnknownId
    /\ served[3].response.closed
    /\ DOMAIN active_conversations = {ConversationId("a1", 0)}

=============================================================================
